---- MODULE Spec2Model ----
(***************************************************************************)
(* A model of BTL's balanced trees (src/rbtree.h, src/avltree.h), of its   *)
(* list (src/list.h) and of the inorder iterator of its Morris tree        *)
(* (src/avltreemorris.h).                                                  *)
(*                                                                         *)
(* A tree is a heap of nodes: partial functions from addresses to the      *)
(* fields of the node stored there, plus the tree's root pointer.  A node  *)
(* that was deleted is no longer in the domain of the field functions.     *)
(* Dereferencing a null pointer or a deleted node is undefined behaviour:  *)
(* the heap then becomes the "undefined" heap, which stands for every      *)
(* outcome a build can produce and of which nothing is asserted.  A loop   *)
(* that never ends yields the "diverged" heap.                             *)
(***************************************************************************)
EXTENDS Integers, Sequences, FiniteSets, TLC

\* Keys are 1..MaxKey.
MaxKey == 8

Keys == 1 .. MaxKey

\* A run is at most MaxOps calls of Insert and Remove.
MaxOps == 11

\* nullptr
NULL == 0

\* Addresses: `new Node(item)` returns an address that holds no live node.
\* The allocator modelled here gives the node for item k the first of the
\* addresses k, k + MaxKey, k + 2 * MaxKey, ... that holds no live node and
\* that no pointer of the heap still refers to: a pointer to a deleted node
\* stays a pointer to a deleted node.
Addr == 1 .. (MaxKey * (MaxOps + 1))

VARIABLES rb, rbKeys, rbLast, rbOps, avl, avlKeys, avlLast, avlOps, out,
          list, listModel, listLast, mt, iter, iterLog
\* rb, avl: the heap of an RBTree<int> and of an AVLTree<int>; xKeys: the keys
\* inserted and not removed since; xLast: the last Insert or Remove call;
\* xOps: the number of such calls; out: what the last call of a const
\* member function returned; list: the heap of a List<int>; listModel: the
\* sequence the calls made on it describe; listLast: the last of these calls;
\* mt: the heap of an AVLTreeMorris<int>; iter: a ConstIterator of it; iterLog:
\* the tree when the iterator was constructed and what the iterator yielded

vars ==
    <<rb, rbKeys, rbLast, rbOps, avl, avlKeys, avlLast, avlOps, out,
      list, listModel, listLast, mt, iter, iterLog>>

-----------------------------------------------------------------------------
(* Heap helpers shared by both trees *)

Live(h) == DOMAIN h.item

\* p can be dereferenced
Ok(h, p) == p # NULL /\ p \in DOMAIN h.item

\* p is null or can be dereferenced
OkOrNull(h, p) == p = NULL \/ p \in DOMAIN h.item

\* the addresses some pointer of the heap refers to
Referenced(h) ==
    {h.root} \cup {h.left[p] : p \in DOMAIN h.item}
             \cup {h.right[p] : p \in DOMAIN h.item}
             \cup {h.parent[p] : p \in DOMAIN h.item}

\* the address `new Node(item)` returns
NewAddr(h, item) ==
    LET Free(a) == a \notin DOMAIN h.item /\ a \notin Referenced(h)
        n == CHOOSE i \in 0 .. MaxOps :
                 /\ Free(item + i * MaxKey)
                 /\ \A j \in 0 .. (i - 1) : ~Free(item + j * MaxKey)
    IN  item + n * MaxKey

\* What a walk over pointers returns instead of a pointer when it dereferences
\* a null or deleted node, and when it never ends.
UNDEF == 0 - 1

DIVERGED == 0 - 2

IsPtr(p) == p >= 0

PtrStatus(p) == IF p = UNDEF THEN "undefined" ELSE "diverged"

Max(a, b) == IF a < b THEN b ELSE a

Min(a, b) == IF a < b THEN a ELSE b

\* A loop over an unchanging heap that takes more steps than this has come
\* back to a state it was in, and never ends.
Fuel(h) == 2 * Cardinality(DOMAIN h.item) + 2

-----------------------------------------------------------------------------
(* RBTree *)

RBEmpty ==
    [root |-> NULL, item |-> <<>>, left |-> <<>>, right |-> <<>>,
     parent |-> <<>>, color |-> <<>>, st |-> "ok"]

RBAbnormal(s) == [RBEmpty EXCEPT !.st = s]

\* p->f = v
RBSet(h, f, p, v) ==
    IF h.st # "ok" THEN h
    ELSE IF ~Ok(h, p) THEN RBAbnormal("undefined")
    ELSE [h EXCEPT ![f][p] = v]

\* root = v
RBSetRoot(h, v) == IF h.st # "ok" THEN h ELSE [h EXCEPT !.root = v]

\* Node::Node(item): Red, no links
RBNode(h, a, k) ==
    [h EXCEPT !.item = (a :> k) @@ @, !.left = (a :> NULL) @@ @,
              !.right = (a :> NULL) @@ @, !.parent = (a :> NULL) @@ @,
              !.color = (a :> "Red") @@ @]

\* The fields f of the nodes S that stay live after a delete
Restrict(f, S) == [x \in S |-> f[x]]

\* delete p
RBDelete(h, p) ==
    IF h.st # "ok" THEN h
    ELSE IF ~Ok(h, p) THEN RBAbnormal("undefined")
    ELSE LET S == DOMAIN h.item \ {p}
         IN  [h EXCEPT !.item = Restrict(@, S), !.left = Restrict(@, S),
                       !.right = Restrict(@, S), !.parent = Restrict(@, S),
                       !.color = Restrict(@, S)]

Other(side) == IF side = "left" THEN "right" ELSE "left"

\* LeftRotate(x) is RBRotate(h, x, "left"); RightRotate(x) is its mirror image.
\* Each statement of the code is an operator from the heap before it to the
\* heap after it.
\* a rotation that leaves the tree as it is
RBRotateNothing(h, x, side) == h

RBRotate(h, x, side) ==
    LET o == Other(side)
        y == h[o][x]
        \* x->right = y->left; if (y->left != nullptr) y->left->parent = x;
        S1(g) == IF g[side][y] # NULL
                 THEN RBSet(RBSet(g, o, x, g[side][y]), "parent", g[side][y], x)
                 ELSE RBSet(g, o, x, NULL)
        \* y->parent = x->parent;
        S2(g) == IF g.st # "ok" THEN g ELSE RBSet(g, "parent", y, g.parent[x])
        \* if (x->parent == nullptr) root = y; else if (x == x->parent->left)
        \* x->parent->left = y; else x->parent->right = y;
        S3(g) == IF g.st # "ok" THEN g
                 ELSE IF g.parent[x] = NULL THEN RBSetRoot(g, y)
                 ELSE IF ~Ok(g, g.parent[x]) THEN RBAbnormal("undefined")
                 ELSE IF x = g[side][g.parent[x]]
                      THEN RBSet(g, side, g.parent[x], y)
                 ELSE RBSet(g, o, g.parent[x], y)
        \* y->left = x; x->parent = y;
        S4(g) == RBSet(RBSet(g, side, y, x), "parent", x, y)
    IN  IF h.st # "ok" THEN h
        ELSE IF ~Ok(h, x) THEN RBAbnormal("undefined")
        ELSE IF ~Ok(h, y) THEN RBAbnormal("undefined")
        ELSE S4(S3(S2(S1(h))))

RBLeftRotate(h, x) == RBRotate(h, x, "left")

RBRightRotate(h, x) == RBRotate(h, x, "right")

\* The body of InsertFixup's loop when z's parent is its grandparent's `side`
\* child; <<heap, z>>.
RBInsertFixupStep(h, z, side) ==
    LET o == Other(side)
        zp == h.parent[z]
        zpp == h.parent[zp]
        y == h[o][zpp]
        Undefined == <<RBAbnormal("undefined"), z>>
        \* if (z == z->parent->right) { z = z->parent; LeftRotate(z); }
        S1(s) == IF s[2] = s[1][o][zp] THEN <<RBRotate(s[1], zp, side), zp>>
                 ELSE s
        \* z->parent->color = Black; z->parent->parent->color = Red;
        S2(s) == IF s[1].st # "ok" THEN s
                 ELSE IF ~Ok(s[1], s[2]) \/ ~Ok(s[1], s[1].parent[s[2]])
                      THEN Undefined
                 ELSE <<RBSet(RBSet(s[1], "color", s[1].parent[s[2]], "Black"),
                              "color", s[1].parent[s[1].parent[s[2]]], "Red"),
                        s[2]>>
        \* RightRotate(z->parent->parent);
        S3(s) == IF s[1].st # "ok" THEN s
                 ELSE <<RBRotate(s[1], s[1].parent[s[1].parent[s[2]]], o), s[2]>>
    IN
    IF ~OkOrNull(h, y) THEN Undefined
    ELSE IF y # NULL /\ h.color[y] = "Red"
    THEN <<RBSet(RBSet(RBSet(h, "color", zp, "Black"), "color", y, "Black"),
                 "color", zpp, "Red"),
           zpp>>
    ELSE S3(S2(S1(<<h, z>>)))

\* InsertFixup's loop, on s = <<heap, z>>
RECURSIVE RBInsertFixupLoop(_, _)
RBInsertFixupLoop(s, fuel) ==
    LET h == s[1]
        z == s[2]
    IN
    IF h.st # "ok" THEN h
    ELSE IF z = h.root THEN h
    ELSE IF ~Ok(h, z) THEN RBAbnormal("undefined")
    ELSE IF ~Ok(h, h.parent[z]) THEN RBAbnormal("undefined")
    ELSE IF h.color[h.parent[z]] # "Red" THEN h
    ELSE IF fuel = 0 THEN RBAbnormal("diverged")
    ELSE IF ~Ok(h, h.parent[h.parent[z]]) THEN RBAbnormal("undefined")
    ELSE RBInsertFixupLoop(
             IF h.parent[z] = h.left[h.parent[h.parent[z]]]
             THEN RBInsertFixupStep(h, z, "left")
             ELSE RBInsertFixupStep(h, z, "right"),
             fuel - 1)

\* an InsertFixup without its loop: only root->color = Black
RBInsertFixupRootOnly(h, z) ==
    IF h.st # "ok" THEN h ELSE RBSet(h, "color", h.root, "Black")

RBInsertFixup(h, z) ==
    LET \* root->color = Black;
        Last(g) == IF g.st # "ok" THEN g
                   ELSE RBSet(g, "color", g.root, "Black")
    IN  Last(RBInsertFixupLoop(<<h, z>>, 2 * Fuel(h)))

\* The descent of Insert: <<status, previous>>, status "null" when the loop
\* ended at a null child and "equal" when it found the item.
RECURSIVE RBInsertDescend(_, _, _, _, _)
RBInsertDescend(h, current, previous, item, fuel) ==
    IF current = NULL THEN <<"null", previous>>
    ELSE IF ~Ok(h, current) THEN <<"undefined", previous>>
    ELSE IF fuel = 0 THEN <<"diverged", previous>>
    ELSE IF item < h.item[current]
         THEN RBInsertDescend(h, h.left[current], current, item, fuel - 1)
    ELSE IF item > h.item[current]
         THEN RBInsertDescend(h, h.right[current], current, item, fuel - 1)
    ELSE <<"equal", current>>

\* Insert up to its call of InsertFixup: the heap with node linked, and
\* whether InsertFixup(node) follows
RBInsertAttached(h, item) ==
    LET \* Node* node = new Node(item); on the heap g that holds it:
        \* node->parent = previous; if (previous == nullptr) root = node; ...
        Attach(g, node, previous) ==
            IF previous = NULL
            THEN RBSetRoot(RBSet(g, "parent", node, previous), node)
            ELSE IF item < g.item[previous]
                 THEN RBSet(RBSet(g, "parent", node, previous),
                            "left", previous, node)
            ELSE RBSet(RBSet(g, "parent", node, previous),
                       "right", previous, node)
        \* what follows the descent d
        Finish(g, node, d) ==
            IF d[1] \in {"undefined", "diverged"}
            THEN [fixup |-> FALSE, h |-> RBAbnormal(d[1]), node |-> node]
            ELSE IF d[1] = "equal"
            THEN [fixup |-> FALSE, h |-> RBDelete(g, node), node |-> node]
            ELSE [fixup |-> TRUE, h |-> Attach(g, node, d[2]), node |-> node]
        Descend(g, node) ==
            Finish(g, node, RBInsertDescend(g, g.root, NULL, item, Fuel(g)))
        New(node) == Descend(RBNode(h, node, item), node)
    IN  New(NewAddr(h, item))

RBInsert(h, item) ==
    LET \* InsertFixup(node);
        Fixup(u) == IF u.fixup THEN RBInsertFixup(u.h, u.node) ELSE u.h
    IN  Fixup(RBInsertAttached(h, item))

\* p is null or Black; p is dereferenced when it is not null
RBNullOrBlack(h, p) == p = NULL \/ h.color[p] = "Black"

\* The body of RemoveFixup's loop when x is its parent's `side` child;
\* <<heap, x>>.  The statements work on s = [h |-> heap, y |-> y].
RBRemoveFixupStep(h, x, side) ==
    LET o == Other(side)
        Undefined == [h |-> RBAbnormal("undefined"), y |-> NULL]
        \* y = x->parent->right;
        Sibling(g) ==
            IF g.st # "ok" THEN [h |-> g, y |-> NULL]
            ELSE IF ~Ok(g, x) \/ ~Ok(g, g.parent[x]) THEN Undefined
            ELSE [h |-> g, y |-> g[o][g.parent[x]]]
        \* Case 1
        Case1(s) ==
            IF s.h.st # "ok" THEN s
            ELSE IF ~Ok(s.h, s.y) THEN Undefined
            ELSE IF s.h.color[s.y] = "Red"
            THEN Sibling(RBRotate(RBSet(RBSet(s.h, "color", s.y, "Black"),
                                        "color", s.h.parent[x], "Red"),
                                  s.h.parent[x], side))
            ELSE s
        \* Case 3
        Case3(s) ==
            IF RBNullOrBlack(s.h, s.h[o][s.y])
            THEN Sibling(RBRotate(
                     RBSet(IF s.h[side][s.y] # NULL
                           THEN RBSet(s.h, "color", s.h[side][s.y], "Black")
                           ELSE s.h,
                           "color", s.y, "Red"),
                     s.y, o))
            ELSE s
        \* Case 4
        Case4(s) ==
            LET A(g) == RBSet(g, "color", s.y, g.color[g.parent[x]])
                B(g) == IF g.st # "ok" THEN g
                        ELSE IF g.parent[g.parent[x]] # NULL
                             THEN RBSet(g, "color", g.parent[g.parent[x]],
                                        "Black")
                        ELSE g
                C(g) == IF g.st # "ok" THEN g
                        ELSE RBSet(g, "color", g[o][s.y], "Black")
                D(g) == IF g.st # "ok" THEN g
                        ELSE RBRotate(g, g.parent[x], side)
            IN  IF s.h.st # "ok" THEN s.h
                ELSE IF ~Ok(s.h, s.y) THEN RBAbnormal("undefined")
                ELSE RBSetRoot(D(C(B(A(s.h)))), x)
        Cases(s) ==
            IF s.h.st # "ok" THEN <<s.h, x>>
            ELSE IF ~Ok(s.h, s.y) THEN <<RBAbnormal("undefined"), x>>
            ELSE IF ~OkOrNull(s.h, s.h[side][s.y])
                 THEN <<RBAbnormal("undefined"), x>>
            ELSE IF /\ RBNullOrBlack(s.h, s.h[side][s.y])
                    /\ ~OkOrNull(s.h, s.h[o][s.y])
                 THEN <<RBAbnormal("undefined"), x>>
            ELSE IF /\ RBNullOrBlack(s.h, s.h[side][s.y])
                    /\ RBNullOrBlack(s.h, s.h[o][s.y])
            THEN \* Case 2
                 <<RBSet(s.h, "color", s.y, "Red"), s.h.parent[x]>>
            ELSE IF ~OkOrNull(s.h, s.h[o][s.y])
                 THEN <<RBAbnormal("undefined"), x>>
            ELSE <<Case4(Case3(s)), x>>
    IN  Cases(Case1(Sibling(h)))

\* RemoveFixup's loop, on s = <<heap, x>>
RECURSIVE RBRemoveFixupLoop(_, _)
RBRemoveFixupLoop(s, fuel) ==
    LET h == s[1]
        x == s[2]
    IN
    IF h.st # "ok" THEN h
    ELSE IF x = h.root THEN RBSet(h, "color", x, "Black")
    ELSE IF ~Ok(h, x) THEN RBAbnormal("undefined")
    ELSE IF h.color[x] # "Black" THEN RBSet(h, "color", x, "Black")
    ELSE IF fuel = 0 THEN RBAbnormal("diverged")
    ELSE IF ~Ok(h, h.parent[x]) THEN RBAbnormal("undefined")
    ELSE RBRemoveFixupLoop(IF x = h.left[h.parent[x]]
                           THEN RBRemoveFixupStep(h, x, "left")
                           ELSE RBRemoveFixupStep(h, x, "right"),
                           fuel - 1)

RBRemoveFixup(h, x) == RBRemoveFixupLoop(<<h, x>>, 2 * Fuel(h))

\* The descent of Remove and of Search: the node holding item, NULL when the
\* descent ends at a null child, or a status.
RECURSIVE RBFind(_, _, _, _)
RBFind(h, current, item, fuel) ==
    IF current = NULL THEN NULL
    ELSE IF ~Ok(h, current) THEN UNDEF
    ELSE IF fuel = 0 THEN DIVERGED
    ELSE IF h.item[current] = item THEN current
    ELSE IF item < h.item[current]
         THEN RBFind(h, h.left[current], item, fuel - 1)
    ELSE RBFind(h, h.right[current], item, fuel - 1)

\* true, false, or a status
RBSearch(h, item) ==
    LET c == RBFind(h, h.root, item, Fuel(h))
    IN  IF ~IsPtr(c) THEN PtrStatus(c)
        ELSE IF c = NULL THEN "false" ELSE "true"

\* current's place in its parent (or root) is given to v
RBReplaceInParent(h, current, v) ==
    IF h.st # "ok" THEN h
    ELSE IF current = h.root THEN RBSetRoot(h, v)
    ELSE IF ~Ok(h, h.parent[current]) THEN RBAbnormal("undefined")
    ELSE IF h.left[h.parent[current]] = current
         THEN RBSet(h, "left", h.parent[current], v)
    ELSE RBSet(h, "right", h.parent[current], v)

\* Remove, current has no child; <<heap, balancePoint>>
RBRemoveLeaf(h, current) == <<RBReplaceInParent(h, current, NULL), NULL>>

\* Remove, current has one child, on `side`; <<heap, balancePoint>>
RBRemoveOneChild(h, current, side) ==
    LET c == h[side][current]
        \* current->left->parent = current->parent;
        SetParent(g) ==
            IF g.st # "ok" THEN g
            ELSE RBSet(g, "parent", g[side][current], g.parent[current])
    IN  IF current = h.root
        THEN <<RBSet(RBSetRoot(h, c), "parent", c, NULL), c>>
        ELSE <<SetParent(RBReplaceInParent(h, current, c)), c>>

\* the minimum of the subtree at p, or a status
RECURSIVE RBLeftmost(_, _, _)
RBLeftmost(h, p, fuel) ==
    IF ~Ok(h, p) THEN UNDEF
    ELSE IF fuel = 0 THEN DIVERGED
    ELSE IF h.left[p] = NULL THEN p
    ELSE RBLeftmost(h, h.left[p], fuel - 1)

\* Remove, current has two children; <<heap, balancePoint>>
RBRemoveTwoChildren(h, current) ==
    LET Splice(replacement) ==
        LET \* replacement->left = current->left;
            \* current->left->parent = replacement;
            S1(g) == RBSet(RBSet(g, "left", replacement, g.left[current]),
                           "parent", g.left[current], replacement)
            \* the colours of replacement and current are swapped
            S2(g) == IF g.st # "ok" THEN g
                     ELSE RBSet(RBSet(g, "color", replacement, g.color[current]),
                                "color", current, g.color[replacement])
            \* if (replacement->parent != current) { ... }
            S3(g) == IF g.st # "ok" THEN g
                     ELSE IF g.parent[replacement] # current
                     THEN RBSet(RBSet(RBSet(g, "left", g.parent[replacement],
                                            g.right[replacement]),
                                      "right", replacement, g.right[current]),
                                "parent", g.right[current], replacement)
                     ELSE g
            \* replacement->parent = current->parent;
            SetParent(g) ==
                IF g.st # "ok" THEN g
                ELSE RBSet(g, "parent", replacement, g.parent[current])
            \* replacement takes current's place
            S4(g) == IF g.st # "ok" THEN g
                     ELSE IF current = g.root
                     THEN RBSet(RBSetRoot(g, replacement),
                                "parent", replacement, NULL)
                     ELSE SetParent(RBReplaceInParent(g, current, replacement))
        IN  IF ~IsPtr(replacement)
            THEN <<RBAbnormal(PtrStatus(replacement)), NULL>>
            ELSE <<S4(S3(S2(S1(h)))), h.right[replacement]>>
    IN  Splice(RBLeftmost(h, h.right[current], Fuel(h)))

\* The structural part of Remove, by the number of current's children
RBUnlink(h, current) ==
    IF h.left[current] = NULL /\ h.right[current] = NULL
    THEN RBRemoveLeaf(h, current)
    ELSE IF h.left[current] # NULL /\ h.right[current] = NULL
    THEN RBRemoveOneChild(h, current, "left")
    ELSE IF h.left[current] = NULL /\ h.right[current] # NULL
    THEN RBRemoveOneChild(h, current, "right")
    ELSE RBRemoveTwoChildren(h, current)

\* Whether Remove calls RemoveFixup
RBNeedsFixup(h, current, balancePoint) ==
    balancePoint # NULL /\ h.color[current] = "Black"

RBRemove(h, item) ==
    LET \* u = <<heap, balancePoint>>: RemoveFixup if needed; delete current;
        Finish(u, current) ==
            IF u[1].st # "ok" THEN u[1]
            ELSE RBDelete(IF RBNeedsFixup(u[1], current, u[2])
                          THEN RBRemoveFixup(u[1], u[2])
                          ELSE u[1],
                          current)
        Found(current) ==
            IF ~IsPtr(current) THEN RBAbnormal(PtrStatus(current))
            ELSE IF current = NULL THEN h
            ELSE Finish(RBUnlink(h, current), current)
    IN  Found(RBFind(h, h.root, item, Fuel(h)))

-----------------------------------------------------------------------------
(* RBTree iteration *)

\* ConstIterator::ConstIterator(Node*): the minimum below current, or end
RBBegin(h) == IF h.root = NULL THEN NULL ELSE RBLeftmost(h, h.root, Fuel(h))

\* the ascent of ConstIterator::operator++
RECURSIVE RBAscend(_, _, _)
RBAscend(h, current, fuel) ==
    IF ~Ok(h, current) THEN UNDEF
    ELSE IF fuel = 0 THEN DIVERGED
    ELSE IF h.parent[current] = NULL THEN NULL
    ELSE IF ~Ok(h, h.parent[current]) THEN UNDEF
    ELSE IF h.right[h.parent[current]] = current
         THEN RBAscend(h, h.parent[current], fuel - 1)
    ELSE h.parent[current]

\* ConstIterator::operator++
RBNext(h, current) ==
    IF ~Ok(h, current) THEN UNDEF
    ELSE IF h.right[current] # NULL
         THEN RBLeftmost(h, h.right[current], Fuel(h))
    ELSE RBAscend(h, current, Fuel(h))

\* for (itr = begin(); itr != end(); ++itr): the items yielded, and how the
\* loop ends
RECURSIVE RBIterate(_, _, _, _)
RBIterate(h, current, seq, fuel) ==
    IF current = NULL THEN [st |-> "ok", seq |-> seq]
    ELSE IF ~IsPtr(current) THEN [st |-> PtrStatus(current), seq |-> seq]
    ELSE IF ~Ok(h, current) THEN [st |-> "undefined", seq |-> seq]
    ELSE IF fuel = 0 THEN [st |-> "diverged", seq |-> seq]
    ELSE RBIterate(h, RBNext(h, current), Append(seq, h.item[current]), fuel - 1)

RBInorder(h) ==
    IF h.st # "ok" THEN [st |-> h.st, seq |-> <<>>]
    ELSE RBIterate(h, RBBegin(h), <<>>, Fuel(h))

\* ConstPostorder::Iterator: current, next, downwardPhase; st tells whether
\* the last step returned normally
RBPostIter(current, next, down, st) ==
    [current |-> current, next |-> next, down |-> down, st |-> st]

\* the loop of ConstPostorder::Iterator::operator++
RECURSIVE RBPostLoop(_, _, _, _)
RBPostLoop(h, next, down, fuel) ==
    IF ~Ok(h, next) THEN RBPostIter(NULL, NULL, TRUE, "undefined")
    ELSE IF fuel = 0 THEN RBPostIter(NULL, NULL, TRUE, "diverged")
    ELSE IF down
    THEN IF h.right[next] # NULL
         THEN LET n == RBLeftmost(h, h.right[next], Fuel(h))
              IN  IF ~IsPtr(n) THEN RBPostIter(NULL, NULL, TRUE, PtrStatus(n))
                  ELSE RBPostLoop(h, n, TRUE, fuel - 1)
         ELSE RBPostLoop(h, next, FALSE, fuel - 1)
    ELSE LET np == h.parent[next] IN
         IF ~OkOrNull(h, np) THEN RBPostIter(NULL, NULL, TRUE, "undefined")
         ELSE RBPostIter(next, np, ~(np # NULL /\ h.right[np] = next), "ok")

\* an operator++ that never turns into a right subtree
RBPostNextSkipRight(h, it) ==
    IF it.next = NULL THEN RBPostIter(NULL, it.next, it.down, "ok")
    ELSE RBPostLoop(h, it.next, FALSE, 2 * Fuel(h))

\* ConstPostorder::Iterator::operator++
RBPostNext(h, it) ==
    IF it.next = NULL THEN RBPostIter(NULL, it.next, it.down, "ok")
    ELSE RBPostLoop(h, it.next, it.down, 2 * Fuel(h))

\* a begin() that does not descend to the leftmost node first
RBPostBeginAtRoot(h) ==
    IF h.root = NULL THEN RBPostIter(NULL, NULL, TRUE, "ok")
    ELSE RBPostNext(h, RBPostIter(NULL, h.root, TRUE, "ok"))

\* ConstPostorder::begin()
RBPostBegin(h) ==
    IF h.root = NULL THEN RBPostIter(NULL, NULL, TRUE, "ok")
    ELSE LET n == RBLeftmost(h, h.root, Fuel(h))
         IN  IF ~IsPtr(n) THEN RBPostIter(NULL, NULL, TRUE, PtrStatus(n))
             ELSE RBPostNext(h, RBPostIter(NULL, n, TRUE, "ok"))

\* itr != ConstPostorder::end()
RBPostNotEnd(it) == ~(it.current = NULL /\ it.next = NULL /\ it.down = TRUE)

\* for (itr = ConstPostorder(*this).begin(); itr != end(); ++itr)
RECURSIVE RBPostIterate(_, _, _, _)
RBPostIterate(h, it, seq, fuel) ==
    IF it.st # "ok" THEN [st |-> it.st, seq |-> seq]
    ELSE IF ~RBPostNotEnd(it) THEN [st |-> "ok", seq |-> seq]
    ELSE IF ~Ok(h, it.current) THEN [st |-> "undefined", seq |-> seq]
    ELSE IF fuel = 0 THEN [st |-> "diverged", seq |-> seq]
    ELSE RBPostIterate(h, RBPostNext(h, it),
                       Append(seq, h.item[it.current]), fuel - 1)

RBPostorder(h) ==
    IF h.st # "ok" THEN [st |-> h.st, seq |-> <<>>]
    ELSE RBPostIterate(h, RBPostBegin(h), <<>>, 2 * Fuel(h))

-----------------------------------------------------------------------------
(* RBTree::IsValid *)

\* IsValid's check #4 at one node: a Red node with a Red child
RBRedRed(h, current) ==
    /\ h.color[current] = "Red"
    /\ \/ h.left[current] # NULL /\ h.color[h.left[current]] = "Red"
       \/ h.right[current] # NULL /\ h.color[h.right[current]] = "Red"

\* the loop of check #4: "pass", "false" or a status
RECURSIVE RBCheckRed(_, _, _)
RBCheckRed(h, current, fuel) ==
    IF current = NULL THEN "pass"
    ELSE IF ~IsPtr(current) THEN PtrStatus(current)
    ELSE IF ~Ok(h, current) THEN "undefined"
    ELSE IF fuel = 0 THEN "diverged"
    ELSE IF h.color[current] = "Red" /\ ~OkOrNull(h, h.left[current])
         THEN "undefined"
    ELSE IF /\ h.color[current] = "Red"
            /\ RBNullOrBlack(h, h.left[current])
            /\ ~OkOrNull(h, h.right[current])
         THEN "undefined"
    ELSE IF RBRedRed(h, current) THEN "false"
    ELSE RBCheckRed(h, RBNext(h, current), fuel - 1)

\* check #5 at a bottom-most node: the Black nodes from it up to the root
RECURSIVE RBBlackCount(_, _, _)
RBBlackCount(h, ancestor, fuel) ==
    IF ancestor = NULL THEN 0
    ELSE IF ~Ok(h, ancestor) THEN UNDEF
    ELSE IF fuel = 0 THEN DIVERGED
    ELSE LET c == RBBlackCount(h, h.parent[ancestor], fuel - 1)
         IN  IF ~IsPtr(c) THEN c
             ELSE c + (IF h.color[ancestor] = "Black" THEN 1 ELSE 0)

\* the loop of check #5: "pass", "false" or a status
RECURSIVE RBCheckBlack(_, _, _, _)
RBCheckBlack(h, it, mainCount, fuel) ==
    IF it.st # "ok" THEN it.st
    ELSE IF ~RBPostNotEnd(it) THEN "pass"
    ELSE IF ~Ok(h, it.current) THEN "undefined"
    ELSE IF fuel = 0 THEN "diverged"
    ELSE IF h.left[it.current] # NULL \/ h.right[it.current] # NULL
         THEN RBCheckBlack(h, RBPostNext(h, it), mainCount, fuel - 1)
    ELSE LET blackNodeCount == RBBlackCount(h, it.current, Fuel(h)) IN
         IF ~IsPtr(blackNodeCount) THEN PtrStatus(blackNodeCount)
         ELSE IF mainCount = 0 - 1
              THEN RBCheckBlack(h, RBPostNext(h, it), blackNodeCount, fuel - 1)
         ELSE IF blackNodeCount # mainCount THEN "false"
         ELSE RBCheckBlack(h, RBPostNext(h, it), mainCount, fuel - 1)

\* IsValid(): "true", "false", or a status
RBIsValid(h) ==
    IF h.st # "ok" THEN h.st
    ELSE IF h.root # NULL /\ ~Ok(h, h.root) THEN "undefined"
    ELSE IF h.root # NULL /\ h.color[h.root] # "Black" THEN "false"
    ELSE LET c4 == RBCheckRed(h, RBBegin(h), Fuel(h)) IN
         IF c4 # "pass" THEN c4
         ELSE LET c5 == RBCheckBlack(h, RBPostBegin(h), 0 - 1, 2 * Fuel(h))
              IN  IF c5 = "pass" THEN "true" ELSE c5

-----------------------------------------------------------------------------
(* RBTree::Intersect *)

\* RBTree::Intersect's loop.  left is this tree's ConstIterator (a node of
\* h), right the position of other's iterator in the sequence other yields,
\* intersectionTree the heap of the local tree that is returned.
RECURSIVE RBIntersectLoop(_, _, _, _, _, _)
RBIntersectLoop(h, left, other, right, intersectionTree, fuel) ==
    IF intersectionTree.st # "ok" THEN intersectionTree
    ELSE IF ~IsPtr(left) THEN RBAbnormal(PtrStatus(left))
    ELSE IF left = NULL \/ right > Len(other) THEN intersectionTree
    ELSE IF ~Ok(h, left) THEN RBAbnormal("undefined")
    ELSE IF fuel = 0 THEN RBAbnormal("diverged")
    ELSE IF h.item[left] = other[right]
         THEN RBIntersectLoop(h, RBNext(h, left), other, right + 1,
                              RBInsert(intersectionTree, h.item[left]),
                              fuel - 1)
    ELSE IF h.item[left] < other[right]
         THEN RBIntersectLoop(h, RBNext(h, left), other, right,
                              intersectionTree, fuel - 1)
    ELSE RBIntersectLoop(h, left, other, right + 1, intersectionTree,
                         fuel - 1)

\* a merge that never steps the right-hand iterator past a smaller element
RBIntersectLeftOnly(h, other) ==
    LET RECURSIVE Loop(_, _, _, _)
        Loop(left, right, tree, fuel) ==
            IF ~IsPtr(left) THEN RBAbnormal(PtrStatus(left))
            ELSE IF left = NULL \/ right > Len(other) \/ fuel = 0 THEN tree
            ELSE IF ~Ok(h, left) THEN RBAbnormal("undefined")
            ELSE IF h.item[left] = other[right]
                 THEN Loop(RBNext(h, left), right + 1,
                           RBInsert(tree, h.item[left]), fuel - 1)
            ELSE Loop(RBNext(h, left), right, tree, fuel - 1)
    IN  Loop(RBBegin(h), 1, RBEmpty, Fuel(h))

\* RBTree::Intersect(other) const: the tree it returns
RBIntersect(h, other) ==
    IF h.st # "ok" THEN RBAbnormal(h.st)
    ELSE RBIntersectLoop(h, RBBegin(h), other, 1, RBEmpty,
                         Fuel(h) + Len(other))

-----------------------------------------------------------------------------
(* RBTree::Clear *)

\* a Clear that walks the tree with the inorder ConstIterator instead
RBClearInorder(h) ==
    LET RECURSIVE Loop(_, _, _)
        Loop(g, current, fuel) ==
            LET After(g2) == Loop(g2, RBNext(g2, current), fuel - 1)
            IN  IF g.st # "ok" THEN g
                ELSE IF ~IsPtr(current) THEN RBAbnormal(PtrStatus(current))
                ELSE IF current = NULL THEN RBSetRoot(g, NULL)
                ELSE IF fuel = 0 THEN RBAbnormal("diverged")
                ELSE After(RBDelete(g, current))
    IN  IF h.st # "ok" THEN h ELSE Loop(h, RBBegin(h), 2 * Fuel(h))

\* RBTree::Clear(): the postorder loop deletes the node the iterator is at
\* before it steps the iterator, then root = nullptr
RBClear(h) ==
    LET RECURSIVE Loop(_, _, _)
        Loop(g, itr, fuel) ==
            LET After(g2) == Loop(g2, RBPostNext(g2, itr), fuel - 1)
            IN  IF g.st # "ok" THEN g
                ELSE IF itr.st # "ok" THEN RBAbnormal(itr.st)
                ELSE IF ~RBPostNotEnd(itr) THEN RBSetRoot(g, NULL)
                ELSE IF fuel = 0 THEN RBAbnormal("diverged")
                ELSE IF itr.current = NULL THEN After(g)
                ELSE After(RBDelete(g, itr.current))
    IN  IF h.st # "ok" THEN h ELSE Loop(h, RBPostBegin(h), 2 * Fuel(h))

-----------------------------------------------------------------------------
(* AVLTree *)

AVLEmpty ==
    [root |-> NULL, item |-> <<>>, left |-> <<>>, right |-> <<>>,
     parent |-> <<>>, balanceFactor |-> <<>>, st |-> "ok"]

AVLAbnormal(s) == [AVLEmpty EXCEPT !.st = s]

\* p->f = v
AVLSet(h, f, p, v) ==
    IF h.st # "ok" THEN h
    ELSE IF ~Ok(h, p) THEN AVLAbnormal("undefined")
    ELSE [h EXCEPT ![f][p] = v]

\* p->balanceFactor += d
AVLAdd(h, p, d) ==
    IF h.st # "ok" THEN h
    ELSE IF ~Ok(h, p) THEN AVLAbnormal("undefined")
    ELSE [h EXCEPT !.balanceFactor[p] = @ + d]

\* root = v
AVLSetRoot(h, v) == IF h.st # "ok" THEN h ELSE [h EXCEPT !.root = v]

\* Node::Node(item_): balanceFactor 0, no links
AVLNode(h, a, k) ==
    [h EXCEPT !.item = (a :> k) @@ @, !.left = (a :> NULL) @@ @,
              !.right = (a :> NULL) @@ @, !.parent = (a :> NULL) @@ @,
              !.balanceFactor = (a :> 0) @@ @]

\* delete p
AVLDelete(h, p) ==
    IF h.st # "ok" THEN h
    ELSE IF ~Ok(h, p) THEN AVLAbnormal("undefined")
    ELSE LET S == DOMAIN h.item \ {p}
         IN  [h EXCEPT !.item = Restrict(@, S), !.left = Restrict(@, S),
                       !.right = Restrict(@, S), !.parent = Restrict(@, S),
                       !.balanceFactor = Restrict(@, S)]

\* the rotation with both factors reset to 0 instead of recomputed
AVLRotateResetFactors(h, this, dir) ==
    LET o == Other(dir)
        q == h[o][this]
        S1(g) == IF g[dir][q] # NULL
                 THEN AVLSet(AVLSet(g, o, this, g[dir][q]),
                             "parent", g[dir][q], this)
                 ELSE AVLSet(g, o, this, NULL)
        S2(g) == IF g.st # "ok" THEN g
                 ELSE AVLSet(AVLSet(AVLSet(g, dir, q, this),
                                    "parent", q, g.parent[this]),
                             "parent", this, q)
        S3(g) == IF g.st # "ok" THEN g
                 ELSE AVLSet(AVLSet(g, "balanceFactor", this, 0),
                             "balanceFactor", q, 0)
    IN  IF h.st # "ok" THEN <<h, NULL>>
        ELSE IF ~Ok(h, this) THEN <<AVLAbnormal("undefined"), NULL>>
        ELSE IF q = NULL THEN <<h, NULL>>
        ELSE IF ~Ok(h, q) THEN <<AVLAbnormal("undefined"), NULL>>
        ELSE <<S3(S2(S1(h))), q>>

\* Node::RightRotate() (dir = "right") and Node::LeftRotate() (dir = "left")
\* on node this; <<heap, the node returned>>
AVLRotate(h, this, dir) ==
    LET o == Other(dir)
        q == h[o][this]
        \* this->left = q->right; if (q->right != nullptr) q->right->parent = this;
        S1(g) == IF g[dir][q] # NULL
                 THEN AVLSet(AVLSet(g, o, this, g[dir][q]),
                             "parent", g[dir][q], this)
                 ELSE AVLSet(g, o, this, NULL)
        \* q->right = this; q->parent = this->parent; parent = q;
        S2(g) == IF g.st # "ok" THEN g
                 ELSE AVLSet(AVLSet(AVLSet(g, dir, q, this),
                                    "parent", q, g.parent[this]),
                             "parent", this, q)
        newBalanceThis(g) ==
            IF dir = "right"
            THEN g.balanceFactor[this] + 1 - Min(g.balanceFactor[q], 0)
            ELSE g.balanceFactor[this] - 1 - Max(g.balanceFactor[q], 0)
        newBalanceQ(g) ==
            IF dir = "right"
            THEN g.balanceFactor[q] + 1 + Max(newBalanceThis(g), 0)
            ELSE g.balanceFactor[q] - 1 + Min(newBalanceThis(g), 0)
        \* this->balanceFactor = newBalanceThis; q->balanceFactor = newBalanceQ;
        S3(g) == IF g.st # "ok" THEN g
                 ELSE AVLSet(AVLSet(g, "balanceFactor", this, newBalanceThis(g)),
                             "balanceFactor", q, newBalanceQ(g))
    IN  IF h.st # "ok" THEN <<h, NULL>>
        ELSE IF ~Ok(h, this) THEN <<AVLAbnormal("undefined"), NULL>>
        ELSE IF q = NULL THEN <<h, NULL>>
        ELSE IF ~Ok(h, q) THEN <<AVLAbnormal("undefined"), NULL>>
        ELSE <<S3(S2(S1(h))), q>>

AVLRightRotate(h, this) == AVLRotate(h, this, "right")

AVLLeftRotate(h, this) == AVLRotate(h, this, "left")

\* a single rotation where the code makes a double one
AVLDoubleRotateSingle(h, this, dir) == AVLRotate(h, this, dir)

\* Node::DoubleRightRotate() (dir = "right") and Node::DoubleLeftRotate()
AVLDoubleRotate(h, this, dir) ==
    LET o == Other(dir)
        \* left = left->LeftRotate(), r being what LeftRotate() made
        Link(r) == AVLSet(r[1], o, this, r[2])
    IN  IF h.st # "ok" THEN <<h, NULL>>
        ELSE IF ~Ok(h, this) THEN <<AVLAbnormal("undefined"), NULL>>
        ELSE IF h[o][this] = NULL THEN <<h, NULL>>
        ELSE AVLRotate(Link(AVLRotate(h, h[o][this], o)), this, dir)

\* Node::Balance(); <<heap, the node returned>>
AVLBalance(h, this) ==
    IF h.st # "ok" THEN <<h, NULL>>
    ELSE IF ~Ok(h, this) THEN <<AVLAbnormal("undefined"), NULL>>
    ELSE IF h.balanceFactor[this] = 0 - 2
    THEN LET w == h.left[this] IN
         IF ~Ok(h, w) THEN <<AVLAbnormal("undefined"), NULL>>
         ELSE IF h.balanceFactor[w] = 1 THEN AVLDoubleRotate(h, this, "right")
         ELSE AVLRotate(h, this, "right")
    ELSE IF h.balanceFactor[this] = 2
    THEN LET w == h.right[this] IN
         IF ~Ok(h, w) THEN <<AVLAbnormal("undefined"), NULL>>
         ELSE IF h.balanceFactor[w] = 0 - 1 THEN AVLDoubleRotate(h, this, "left")
         ELSE AVLRotate(h, this, "left")
    ELSE <<h, NULL>>

\* The state of Insert's descent
AVLDescent(st, current, previous, balancePoint, balancePointPredecessor, balanceFactorUpdateHead) ==
    [st |-> st, current |-> current, previous |-> previous,
     balancePoint |-> balancePoint,
     balancePointPredecessor |-> balancePointPredecessor,
     balanceFactorUpdateHead |-> balanceFactorUpdateHead]

\* Insert's while (1) loop, up to the break; st is "attach" when the loop
\* ended at a null child of current and "equal" when it found the item
RECURSIVE AVLInsertDescend(_, _, _, _)
AVLInsertDescend(h, d, item, fuel) ==
    LET current == d.current IN
    IF ~Ok(h, current) THEN [d EXCEPT !.st = "undefined"]
    ELSE IF fuel = 0 THEN [d EXCEPT !.st = "diverged"]
    ELSE IF item # h.item[current]
    THEN LET side == IF item < h.item[current] THEN "left" ELSE "right"
             \* the factor's sign seen from the side we descend on
             toward == IF side = "left" THEN 0 - h.balanceFactor[current]
                       ELSE h.balanceFactor[current]
             head == IF toward < 0 THEN current ELSE d.balanceFactorUpdateHead
             bp0 == IF toward < 0 /\ d.balancePoint # NULL THEN current
                    ELSE d.balancePoint
         IN
         IF h[side][current] = NULL
         THEN [d EXCEPT !.st = "attach", !.balanceFactorUpdateHead = head,
                        !.balancePoint = bp0]
         ELSE AVLInsertDescend(h,
                  AVLDescent("descend", h[side][current], current,
                      IF toward > 0 THEN current
                      ELSE IF toward < 0 THEN NULL ELSE bp0,
                      IF toward > 0 THEN d.previous
                      ELSE IF toward < 0 THEN NULL
                      ELSE d.balancePointPredecessor,
                      head),
                  item, fuel - 1)
    ELSE [d EXCEPT !.st = "equal", !.balancePoint = NULL,
                   !.balanceFactorUpdateHead = NULL]

\* Insert's do-while loop that updates the balance factors from
\* balanceFactorUpdateHead down to node
RECURSIVE AVLUpdateFactors(_, _, _, _, _)
AVLUpdateFactors(h, head, item, node, fuel) ==
    IF h.st # "ok" THEN h
    ELSE IF ~Ok(h, head) THEN AVLAbnormal("undefined")
    ELSE IF fuel = 0 THEN AVLAbnormal("diverged")
    ELSE IF item < h.item[head]
         THEN IF h.left[head] = node THEN AVLAdd(h, head, 0 - 1)
              ELSE AVLUpdateFactors(AVLAdd(h, head, 0 - 1), h.left[head],
                                    item, node, fuel - 1)
    ELSE IF h.right[head] = node THEN AVLAdd(h, head, 1)
    ELSE AVLUpdateFactors(AVLAdd(h, head, 1), h.right[head], item, node,
                          fuel - 1)

\* b = <<heap, substituteNode>> is what Balance() made at balancePoint:
\* if (root == balancePoint) root = substituteNode;
AVLSubstituteRoot(b, balancePoint) ==
    IF b[1].st = "ok" /\ b[1].root = balancePoint
    THEN <<AVLSetRoot(b[1], b[2]), b[2]>>
    ELSE b

\* Insert's call of Balance and the splice of the node it returns
AVLInsertBalance(h, balancePoint, balancePointPredecessor) ==
    LET \* if (balancePointPredecessor != nullptr) { ... }
        Splice(b) ==
            IF b[1].st # "ok" \/ balancePointPredecessor = NULL THEN b[1]
            ELSE IF ~Ok(b[1], b[2]) \/ ~Ok(b[1], balancePointPredecessor)
                 THEN AVLAbnormal("undefined")
            ELSE IF b[1].left[balancePointPredecessor] = balancePoint
                 THEN AVLSet(AVLSet(b[1], "parent", b[2],
                                    balancePointPredecessor),
                             "left", balancePointPredecessor, b[2])
            ELSE AVLSet(AVLSet(b[1], "parent", b[2], balancePointPredecessor),
                        "right", balancePointPredecessor, b[2])
    IN  Splice(AVLSubstituteRoot(AVLBalance(h, balancePoint), balancePoint))

\* Insert up to its call of Balance: the heap with node linked and the
\* factors updated, and the balancePoint and balancePointPredecessor of the
\* descent
AVLInsertUpdated(h, item) ==
    LET \* the end of the descent d, on the heap g that holds node: node is
        \* linked below current, or deleted
        Link(g, node, d) ==
            IF d.st = "equal" THEN AVLDelete(g, node)
            ELSE IF item < g.item[d.current]
                 THEN AVLSet(AVLSet(g, "left", d.current, node),
                             "parent", node, d.current)
            ELSE AVLSet(AVLSet(g, "right", d.current, node),
                        "parent", node, d.current)
        \* if (balancePoint != nullptr) balanceFactorUpdateHead = balancePoint;
        UpdateHead(d) == IF d.balancePoint # NULL THEN d.balancePoint
                         ELSE d.balanceFactorUpdateHead
        \* if (balanceFactorUpdateHead != nullptr) do { ... } while (...);
        Update(g, node, d) ==
            IF UpdateHead(d) # NULL
            THEN AVLUpdateFactors(g, UpdateHead(d), item, node, Fuel(g))
            ELSE g
        At(g, balancePoint, balancePointPredecessor) ==
            [h |-> g, balancePoint |-> balancePoint,
             balancePointPredecessor |-> balancePointPredecessor]
        After(g, node, d) ==
            IF d.st \in {"undefined", "diverged"}
            THEN At(AVLAbnormal(d.st), NULL, NULL)
            ELSE At(Update(Link(g, node, d), node, d), d.balancePoint,
                    d.balancePointPredecessor)
        Descend(g, node) ==
            IF g.root = NULL THEN At(AVLSetRoot(g, node), NULL, NULL)
            ELSE After(g, node,
                       AVLInsertDescend(g,
                           AVLDescent("descend", g.root, NULL, NULL, NULL,
                                      g.root),
                           item, Fuel(g)))
        New(node) == Descend(AVLNode(h, node, item), node)
    IN  New(NewAddr(h, item))

AVLInsert(h, item) ==
    LET \* if (balancePoint != nullptr) { ... }
        Balance(u) ==
            IF u.h.st = "ok" /\ u.balancePoint # NULL
            THEN AVLInsertBalance(u.h, u.balancePoint, u.balancePointPredecessor)
            ELSE u.h
    IN  Balance(AVLInsertUpdated(h, item))

\* The descent of Remove and of Search: the node holding item, NULL when the
\* descent ends at a null child, or a status
RECURSIVE AVLFind(_, _, _, _)
AVLFind(h, current, item, fuel) ==
    IF current = NULL THEN NULL
    ELSE IF ~Ok(h, current) THEN UNDEF
    ELSE IF fuel = 0 THEN DIVERGED
    ELSE IF h.item[current] = item THEN current
    ELSE IF item < h.item[current]
         THEN AVLFind(h, h.left[current], item, fuel - 1)
    ELSE AVLFind(h, h.right[current], item, fuel - 1)

\* true, false, or a status
AVLSearch(h, item) ==
    LET c == AVLFind(h, h.root, item, Fuel(h))
    IN  IF ~IsPtr(c) THEN PtrStatus(c)
        ELSE IF c = NULL THEN "false" ELSE "true"

\* Remove's do-while loop that tells the ancestors of predecessor that its
\* subtree got shorter
RECURSIVE AVLPropagate(_, _, _)
AVLPropagate(h, predecessor, fuel) ==
    IF h.st # "ok" THEN h
    ELSE IF ~Ok(h, predecessor) THEN AVLAbnormal("undefined")
    ELSE IF fuel = 0 THEN AVLAbnormal("diverged")
    ELSE LET pp == h.parent[predecessor] IN
         IF pp = NULL THEN h
         ELSE IF ~Ok(h, pp) THEN AVLAbnormal("undefined")
         ELSE IF h.left[pp] = predecessor
         THEN LET h1 == AVLAdd(h, pp, 1)
              IN  IF h1.balanceFactor[pp] = 1 THEN h1
                  ELSE AVLPropagate(h1, pp, fuel - 1)
         ELSE LET h1 == AVLAdd(h, pp, 0 - 1)
              IN  IF h1.balanceFactor[pp] = 0 - 1 THEN h1
                  ELSE AVLPropagate(h1, pp, fuel - 1)

\* if (current->parent != nullptr && current->parent->balanceFactor == 0)
\* the shortening is propagated from current->parent
AVLPropagateFromParent(h, current) ==
    IF h.st # "ok" THEN h
    ELSE IF h.parent[current] = NULL THEN h
    ELSE IF ~Ok(h, h.parent[current]) THEN AVLAbnormal("undefined")
    ELSE IF h.balanceFactor[h.parent[current]] = 0
         THEN AVLPropagate(h, h.parent[current], 4 * Fuel(h))
    ELSE h

\* Remove, current has no child (c = NULL) or one child c, on `side`: c takes
\* current's place; the heap before the shortening is propagated
AVLRemoveSimpleUnlinked(h, current, c, side) ==
    LET cp == h.parent[current]
        \* root = current->left; current->left->parent = nullptr;
        Root(g) == IF c = NULL THEN AVLSetRoot(g, c)
                   ELSE AVLSet(AVLSetRoot(g, c), "parent", c, NULL)
        \* current->parent->left = current->left;
        \* current->parent->balanceFactor++;
        Child(g) == IF g.left[cp] = current
                    THEN AVLAdd(AVLSet(g, "left", cp, c), cp, 1)
                    ELSE AVLAdd(AVLSet(g, "right", cp, c), cp, 0 - 1)
        \* current->left->parent = current->parent;
        Parent(g) == IF c = NULL \/ g.st # "ok" THEN g
                     ELSE AVLSet(g, "parent", g[side][current],
                                 g.parent[current])
    IN  IF current = h.root THEN Root(h)
        ELSE IF ~Ok(h, cp) THEN AVLAbnormal("undefined")
        ELSE Parent(Child(h))

\* <<heap, balancePoint>> after the propagation
AVLRemoveSimple(h, current, c, side) ==
    <<AVLPropagateFromParent(AVLRemoveSimpleUnlinked(h, current, c, side),
                             current),
      IF current = h.root \/ ~Ok(h, h.parent[current]) THEN NULL
      ELSE h.parent[current]>>

\* Remove's walk to the minimum of current's right subtree:
\* <<replacement, replacementIncludesBottomMost>>
RECURSIVE AVLReplacement(_, _, _, _)
AVLReplacement(h, replacement, includesBottomMost, fuel) ==
    IF ~Ok(h, replacement) THEN <<UNDEF, FALSE>>
    ELSE IF fuel = 0 THEN <<DIVERGED, FALSE>>
    ELSE IF h.left[replacement] = NULL THEN <<replacement, includesBottomMost>>
    ELSE AVLReplacement(h, h.left[replacement],
             includesBottomMost /\ ~(h.balanceFactor[replacement] >= 0),
             fuel - 1)

\* Remove, current has two children; <<heap, balancePoint>>
AVLRemoveTwoChildren(h, current) ==
    LET Splice(replacement, replacementIncludesBottomMost) ==
        LET \* if (current->balanceFactor >= 0) the shortening is propagated
            Shorter(g) ==
                IF g.st = "ok" /\ g.balanceFactor[current] >= 0
                THEN AVLPropagate(g, current, 4 * Fuel(g))
                ELSE g
            \* if (replacementIncludesBottomMost) { ... }
            S0(g) == IF replacementIncludesBottomMost
                     THEN Shorter(AVLAdd(g, current, 0 - 1))
                     ELSE g
            \* replacement->left = current->left;
            \* current->left->parent = replacement;
            S1(g) == IF g.st # "ok" THEN g
                     ELSE AVLSet(AVLSet(g, "left", replacement, g.left[current]),
                                 "parent", g.left[current], replacement)
            \* replacement->balanceFactor = current->balanceFactor;
            S2(g) == IF g.st # "ok" THEN g
                     ELSE AVLSet(g, "balanceFactor", replacement,
                                 g.balanceFactor[current])
            \* balancePoint = replacement;
            \* if (replacement->parent != current) { ... }
            S3(g) == IF g.st # "ok" THEN <<g, NULL>>
                     ELSE IF g.parent[replacement] # current
                     THEN <<AVLSet(AVLSet(AVLAdd(AVLSet(g, "left",
                                                        g.parent[replacement],
                                                        g.right[replacement]),
                                                 g.parent[replacement], 1),
                                          "right", replacement, g.right[current]),
                                   "parent", g.right[current], replacement),
                            g.parent[replacement]>>
                     ELSE <<g, replacement>>
            \* replacement takes current's place
            Place(g) ==
                IF g.st # "ok" THEN g
                ELSE IF current = g.root
                THEN AVLSet(AVLSetRoot(g, replacement),
                            "parent", replacement, NULL)
                ELSE IF ~Ok(g, g.parent[current]) THEN AVLAbnormal("undefined")
                ELSE IF g.left[g.parent[current]] = current
                THEN AVLSet(AVLSet(g, "left", g.parent[current], replacement),
                            "parent", replacement, g.parent[current])
                ELSE AVLSet(AVLSet(g, "right", g.parent[current], replacement),
                            "parent", replacement, g.parent[current])
            S4(u) == <<Place(u[1]), u[2]>>
        IN  IF ~IsPtr(replacement)
            THEN <<AVLAbnormal(PtrStatus(replacement)), NULL>>
            ELSE S4(S3(S2(S1(S0(h)))))
        Found(r) == Splice(r[1], r[2])
    IN  Found(AVLReplacement(h, h.right[current], TRUE, Fuel(h)))

\* The structural part of Remove, by the number of current's children
AVLUnlink(h, current) ==
    IF h.left[current] = NULL /\ h.right[current] = NULL
    THEN AVLRemoveSimple(h, current, NULL, "left")
    ELSE IF h.left[current] # NULL /\ h.right[current] = NULL
    THEN AVLRemoveSimple(h, current, h.left[current], "left")
    ELSE IF h.left[current] = NULL /\ h.right[current] # NULL
    THEN AVLRemoveSimple(h, current, h.right[current], "right")
    ELSE AVLRemoveTwoChildren(h, current)

\* One turn of Remove's while (balancePoint != nullptr) loop at a
\* balancePoint whose factor is -2 or 2
AVLRebalanceStep(h, balancePoint) ==
    LET balancePointPredecessor == h.parent[balancePoint]
        \* substituteNode->parent = balancePointPredecessor; the predecessor's
        \* child and factor
        Splice(b) ==
            IF b[1].st # "ok" \/ balancePointPredecessor = NULL THEN b[1]
            ELSE IF ~Ok(b[1], b[2]) \/ ~Ok(b[1], balancePointPredecessor)
                 THEN AVLAbnormal("undefined")
            ELSE IF b[1].left[balancePointPredecessor] = balancePoint
                 THEN AVLAdd(AVLSet(AVLSet(b[1], "parent", b[2],
                                           balancePointPredecessor),
                                    "left", balancePointPredecessor, b[2]),
                             balancePointPredecessor, 1)
            ELSE AVLAdd(AVLSet(AVLSet(b[1], "parent", b[2],
                                      balancePointPredecessor),
                               "right", balancePointPredecessor, b[2]),
                        balancePointPredecessor, 0 - 1)
        \* if (balancePointPredecessor->balanceFactor == 0) the shortening
        \* is propagated
        Shorter(g) ==
            IF g.st # "ok" \/ balancePointPredecessor = NULL THEN g
            ELSE IF g.balanceFactor[balancePointPredecessor] = 0
                 THEN AVLPropagate(g, balancePointPredecessor, 4 * Fuel(g))
            ELSE g
    IN  Shorter(Splice(AVLSubstituteRoot(AVLBalance(h, balancePoint),
                                         balancePoint)))

\* Remove's while (balancePoint != nullptr) loop
RECURSIVE AVLRebalance(_, _, _)
AVLRebalance(h, balancePoint, fuel) ==
    IF h.st # "ok" THEN h
    ELSE IF balancePoint = NULL THEN h
    ELSE IF ~Ok(h, balancePoint) THEN AVLAbnormal("undefined")
    ELSE IF fuel = 0 THEN AVLAbnormal("diverged")
    ELSE IF h.balanceFactor[balancePoint] \in {0 - 2, 2}
         THEN AVLRebalance(AVLRebalanceStep(h, balancePoint),
                           h.parent[balancePoint], fuel - 1)
    ELSE h

AVLRemove(h, item) ==
    LET \* u = <<heap, balancePoint>>: delete current; the rebalancing loop
        Finish(u, current) ==
            AVLRebalance(AVLDelete(u[1], current), u[2], 4 * Fuel(h))
        Found(current) ==
            IF ~IsPtr(current) THEN AVLAbnormal(PtrStatus(current))
            ELSE IF current = NULL THEN h
            ELSE Finish(AVLUnlink(h, current), current)
    IN  Found(AVLFind(h, h.root, item, Fuel(h)))

-----------------------------------------------------------------------------
(* AVLTree iteration *)

RECURSIVE AVLLeftmost(_, _, _)
AVLLeftmost(h, p, fuel) ==
    IF ~Ok(h, p) THEN UNDEF
    ELSE IF fuel = 0 THEN DIVERGED
    ELSE IF h.left[p] = NULL THEN p
    ELSE AVLLeftmost(h, h.left[p], fuel - 1)

\* ConstIterator::ConstIterator(tree): the minimum, or end
AVLBegin(h) == IF h.root = NULL THEN NULL ELSE AVLLeftmost(h, h.root, Fuel(h))

\* the ascent of ConstIterator::operator++
RECURSIVE AVLAscend(_, _, _)
AVLAscend(h, current, fuel) ==
    IF ~Ok(h, current) THEN UNDEF
    ELSE IF fuel = 0 THEN DIVERGED
    ELSE IF h.parent[current] = NULL THEN NULL
    ELSE IF ~Ok(h, h.parent[current]) THEN UNDEF
    ELSE IF h.right[h.parent[current]] = current
         THEN AVLAscend(h, h.parent[current], fuel - 1)
    ELSE h.parent[current]

\* ConstIterator::operator++
AVLNext(h, current) ==
    IF ~Ok(h, current) THEN UNDEF
    ELSE IF h.right[current] # NULL
         THEN AVLLeftmost(h, h.right[current], Fuel(h))
    ELSE AVLAscend(h, current, Fuel(h))

\* for (itr = begin(); itr != end(); ++itr): the items yielded, and how the
\* loop ends
RECURSIVE AVLIterate(_, _, _, _)
AVLIterate(h, current, seq, fuel) ==
    IF current = NULL THEN [st |-> "ok", seq |-> seq]
    ELSE IF ~IsPtr(current) THEN [st |-> PtrStatus(current), seq |-> seq]
    ELSE IF ~Ok(h, current) THEN [st |-> "undefined", seq |-> seq]
    ELSE IF fuel = 0 THEN [st |-> "diverged", seq |-> seq]
    ELSE AVLIterate(h, AVLNext(h, current), Append(seq, h.item[current]),
                    fuel - 1)

AVLInorder(h) ==
    IF h.st # "ok" THEN [st |-> h.st, seq |-> <<>>]
    ELSE AVLIterate(h, AVLBegin(h), <<>>, Fuel(h))


\* ConstPostorder::Iterator: current, next, downwardPhase; st tells whether
\* the last step returned normally
AVLPostIter(current, next, down, st) ==
    [current |-> current, next |-> next, down |-> down, st |-> st]

\* the loop of ConstPostorder::Iterator::operator++
RECURSIVE AVLPostLoop(_, _, _, _)
AVLPostLoop(h, next, down, fuel) ==
    IF ~Ok(h, next) THEN AVLPostIter(NULL, NULL, TRUE, "undefined")
    ELSE IF fuel = 0 THEN AVLPostIter(NULL, NULL, TRUE, "diverged")
    ELSE IF down
    THEN IF h.right[next] # NULL
         THEN LET n == AVLLeftmost(h, h.right[next], Fuel(h))
              IN  IF ~IsPtr(n) THEN AVLPostIter(NULL, NULL, TRUE, PtrStatus(n))
                  ELSE AVLPostLoop(h, n, TRUE, fuel - 1)
         ELSE AVLPostLoop(h, next, FALSE, fuel - 1)
    ELSE LET np == h.parent[next] IN
         IF ~OkOrNull(h, np) THEN AVLPostIter(NULL, NULL, TRUE, "undefined")
         ELSE AVLPostIter(next, np, ~(np # NULL /\ h.right[np] = next), "ok")

\* ConstPostorder::Iterator::operator++
AVLPostNext(h, it) ==
    IF it.next = NULL THEN AVLPostIter(NULL, it.next, it.down, "ok")
    ELSE AVLPostLoop(h, it.next, it.down, 2 * Fuel(h))

\* ConstPostorder::begin()
AVLPostBegin(h) ==
    IF h.root = NULL THEN AVLPostIter(NULL, NULL, TRUE, "ok")
    ELSE LET n == AVLLeftmost(h, h.root, Fuel(h))
         IN  IF ~IsPtr(n) THEN AVLPostIter(NULL, NULL, TRUE, PtrStatus(n))
             ELSE AVLPostNext(h, AVLPostIter(NULL, n, TRUE, "ok"))

\* itr != ConstPostorder::end()
AVLPostNotEnd(it) == ~(it.current = NULL /\ it.next = NULL /\ it.down = TRUE)

\* for (itr = ConstPostorder(*this).begin(); itr != end(); ++itr)
RECURSIVE AVLPostIterate(_, _, _, _)
AVLPostIterate(h, it, seq, fuel) ==
    IF it.st # "ok" THEN [st |-> it.st, seq |-> seq]
    ELSE IF ~AVLPostNotEnd(it) THEN [st |-> "ok", seq |-> seq]
    ELSE IF ~Ok(h, it.current) THEN [st |-> "undefined", seq |-> seq]
    ELSE IF fuel = 0 THEN [st |-> "diverged", seq |-> seq]
    ELSE AVLPostIterate(h, AVLPostNext(h, it),
                       Append(seq, h.item[it.current]), fuel - 1)

AVLPostorder(h) ==
    IF h.st # "ok" THEN [st |-> h.st, seq |-> <<>>]
    ELSE AVLPostIterate(h, AVLPostBegin(h), <<>>, 2 * Fuel(h))

-----------------------------------------------------------------------------
(* AVLTree::IsValid *)

\* An unsigned int is kept as the integer nearest to 0 that is congruent to
\* it: a value below 0 stands for a count that wrapped around below zero.
\* a > b on unsigned int
UGreater(a, b) == IF (a < 0) = (b < 0) THEN a > b ELSE a < 0

HeightResult(st, v) == [st |-> st, v |-> v]

\* CalculateHeight's "descend leftward as far as possible":
\* [st, v |-> <<current, currentHeight>>]
RECURSIVE AVLHeightDescend(_, _, _, _)
AVLHeightDescend(h, current, currentHeight, fuel) ==
    IF ~Ok(h, current) THEN HeightResult("undefined", <<NULL, 0>>)
    ELSE IF fuel = 0 THEN HeightResult("diverged", <<NULL, 0>>)
    ELSE IF h.left[current] = NULL
         THEN HeightResult("ok", <<current, currentHeight>>)
    ELSE AVLHeightDescend(h, h.left[current], currentHeight + 1, fuel - 1)

\* CalculateHeight's "ascend, skipping any previously visited nodes"
RECURSIVE AVLHeightAscend(_, _, _, _, _)
AVLHeightAscend(h, this, current, currentHeight, fuel) ==
    IF ~Ok(h, current) THEN HeightResult("undefined", <<NULL, 0>>)
    ELSE IF fuel = 0 THEN HeightResult("diverged", <<NULL, 0>>)
    ELSE LET cp == h.parent[current] IN
         IF cp = NULL THEN HeightResult("ok", <<cp, currentHeight - 1>>)
         ELSE IF ~Ok(h, cp) THEN HeightResult("undefined", <<NULL, 0>>)
         ELSE IF h.right[cp] = current /\ current # this
              THEN AVLHeightAscend(h, this, cp, currentHeight - 1, fuel - 1)
         ELSE HeightResult("ok", <<cp, currentHeight - 1>>)

\* CalculateHeight's main loop
RECURSIVE AVLHeightWalk(_, _, _, _, _, _)
AVLHeightWalk(h, this, current, currentHeight, maxHeight, fuel) ==
    IF current = NULL \/ current = h.parent[this]
    THEN HeightResult("ok", maxHeight)
    ELSE IF ~Ok(h, current) THEN HeightResult("undefined", 0)
    ELSE IF fuel = 0 THEN HeightResult("diverged", 0)
    ELSE LET m == IF UGreater(currentHeight, maxHeight)
                  THEN currentHeight ELSE maxHeight
             d == IF h.right[current] # NULL
                  THEN AVLHeightDescend(h, h.right[current],
                                        currentHeight + 1, Fuel(h))
                  ELSE AVLHeightAscend(h, this, current, currentHeight,
                                       Fuel(h))
         IN  IF d.st # "ok" THEN HeightResult(d.st, 0)
             ELSE AVLHeightWalk(h, this, d.v[1], d.v[2], m, fuel - 1)

\* a CalculateHeight that only descends leftward and never walks the rest
CalculateHeightLeftmost(h, this) ==
    LET d == AVLHeightDescend(h, this, 0, Fuel(h))
    IN  IF d.st # "ok" THEN HeightResult(d.st, 0)
        ELSE HeightResult("ok", d.v[2])

\* Node::CalculateHeight() on node this: [st, v |-> the height]
CalculateHeight(h, this) ==
    LET d == AVLHeightDescend(h, this, 0, Fuel(h))
    IN  IF d.st # "ok" THEN HeightResult(d.st, 0)
        ELSE AVLHeightWalk(h, this, d.v[1], d.v[2], 0, 4 * Fuel(h))

\* n->c != nullptr ? (1 + n->c->CalculateHeight()) : 0
AVLChildHeight(h, c) ==
    IF c = NULL THEN HeightResult("ok", 0)
    ELSE LET r == CalculateHeight(h, c)
         IN  IF r.st # "ok" THEN r ELSE HeightResult("ok", 1 + r.v)

\* the body of IsValid's loop at node n: "true" when both checks pass
AVLCheckNode(h, n) ==
    IF h.balanceFactor[n] \notin {0 - 1, 0, 1} THEN "false"
    ELSE LET leftHeight == AVLChildHeight(h, h.left[n]) IN
         IF leftHeight.st # "ok" THEN leftHeight.st
         ELSE LET rightHeight == AVLChildHeight(h, h.right[n]) IN
              IF rightHeight.st # "ok" THEN rightHeight.st
              ELSE IF h.balanceFactor[n] # rightHeight.v - leftHeight.v
                   THEN "false"
              ELSE "true"

RECURSIVE AVLIsValidLoop(_, _, _)
AVLIsValidLoop(h, n, fuel) ==
    IF n = NULL THEN "true"
    ELSE IF ~IsPtr(n) THEN PtrStatus(n)
    ELSE IF ~Ok(h, n) THEN "undefined"
    ELSE IF fuel = 0 THEN "diverged"
    ELSE LET c == AVLCheckNode(h, n)
         IN  IF c # "true" THEN c
             ELSE AVLIsValidLoop(h, AVLNext(h, n), fuel - 1)

\* AVLTree::IsValid(): "true", "false", or a status
AVLIsValid(h) ==
    IF h.st # "ok" THEN h.st
    ELSE AVLIsValidLoop(h, AVLBegin(h), Fuel(h))

-----------------------------------------------------------------------------
(* AVLTree::Intersect *)

\* AVLTree::Intersect's loop.  left is this tree's ConstIterator (a node of
\* h), right the position of other's iterator in the sequence other yields,
\* intersectionTree the heap of the local tree that is returned.
RECURSIVE AVLIntersectLoop(_, _, _, _, _, _)
AVLIntersectLoop(h, left, other, right, intersectionTree, fuel) ==
    IF intersectionTree.st # "ok" THEN intersectionTree
    ELSE IF ~IsPtr(left) THEN AVLAbnormal(PtrStatus(left))
    ELSE IF left = NULL \/ right > Len(other) THEN intersectionTree
    ELSE IF ~Ok(h, left) THEN AVLAbnormal("undefined")
    ELSE IF fuel = 0 THEN AVLAbnormal("diverged")
    ELSE IF h.item[left] = other[right]
         THEN AVLIntersectLoop(h, AVLNext(h, left), other, right + 1,
                              AVLInsert(intersectionTree, h.item[left]),
                              fuel - 1)
    ELSE IF h.item[left] < other[right]
         THEN AVLIntersectLoop(h, AVLNext(h, left), other, right,
                              intersectionTree, fuel - 1)
    ELSE AVLIntersectLoop(h, left, other, right + 1, intersectionTree,
                         fuel - 1)

\* AVLTree::Intersect(other) const: the tree it returns
AVLIntersect(h, other) ==
    IF h.st # "ok" THEN AVLAbnormal(h.st)
    ELSE AVLIntersectLoop(h, AVLBegin(h), other, 1, AVLEmpty,
                         Fuel(h) + Len(other))

-----------------------------------------------------------------------------
(* AVLTree::Clear *)

\* AVLTree::Clear(): the postorder loop deletes the node the iterator is at
\* before it steps the iterator, then root = nullptr
AVLClear(h) ==
    LET RECURSIVE Loop(_, _, _)
        Loop(g, itr, fuel) ==
            LET After(g2) == Loop(g2, AVLPostNext(g2, itr), fuel - 1)
            IN  IF g.st # "ok" THEN g
                ELSE IF itr.st # "ok" THEN AVLAbnormal(itr.st)
                ELSE IF ~AVLPostNotEnd(itr) THEN AVLSetRoot(g, NULL)
                ELSE IF fuel = 0 THEN AVLAbnormal("diverged")
                ELSE IF itr.current = NULL THEN After(g)
                ELSE After(AVLDelete(g, itr.current))
    IN  IF h.st # "ok" THEN h ELSE Loop(h, AVLPostBegin(h), 2 * Fuel(h))

-----------------------------------------------------------------------------
(* List (src/list.h) *)

\* List(): head(nullptr), tail(nullptr), size(0)
ListEmpty ==
    [head |-> NULL, tail |-> NULL, size |-> 0, item |-> <<>>, next |-> <<>>,
     st |-> "ok"]

ListAbnormal(s) == [ListEmpty EXCEPT !.st = s]

\* new Node(item) at address a: next(nullptr), item(item_)
ListNode(l, a, item) ==
    [l EXCEPT !.item = (a :> item) @@ @, !.next = (a :> NULL) @@ @]

\* the address `new Node(item)` returns: the first one that holds no live
\* node and that no pointer of the list refers to
ListNewAddr(l) ==
    LET Used == DOMAIN l.item \cup {l.head, l.tail}
                    \cup {l.next[p] : p \in DOMAIN l.item}
    IN  CHOOSE a \in 1 .. (Cardinality(Used) + 1) :
            /\ a \notin Used
            /\ \A b \in 1 .. (a - 1) : b \in Used

\* p->next = v
ListSetNext(l, p, v) ==
    IF l.st # "ok" THEN l
    ELSE IF ~Ok(l, p) THEN ListAbnormal("undefined")
    ELSE [l EXCEPT !.next[p] = v]

\* delete p
ListDelete(l, p) ==
    IF l.st # "ok" THEN l
    ELSE IF ~Ok(l, p) THEN ListAbnormal("undefined")
    ELSE LET S == DOMAIN l.item \ {p}
         IN  [l EXCEPT !.item = Restrict(@, S), !.next = Restrict(@, S)]

\* Insert(item): the new node becomes the head
ListInsert(l, item) ==
    LET current == ListNewAddr(l)
        l1 == ListSetNext(ListNode(l, current, item), current, l.head)
        l2 == [l1 EXCEPT !.head = current]
        l3 == IF l2.tail = NULL THEN [l2 EXCEPT !.tail = current] ELSE l2
    IN  IF l.st # "ok" THEN l ELSE [l3 EXCEPT !.size = @ + 1]

\* Append(item): the new node becomes the tail
ListAppend(l, item) ==
    LET current == ListNewAddr(l)
        l1 == ListNode(l, current, item)
        l2 == IF l1.head = NULL THEN [l1 EXCEPT !.head = current] ELSE l1
        l3 == IF l2.tail # NULL THEN ListSetNext(l2, l2.tail, current) ELSE l2
    IN  IF l.st # "ok" \/ l3.st # "ok" THEN ListAbnormal("undefined")
        ELSE [l3 EXCEPT !.tail = current, !.size = @ + 1]

\* The loop of Reverse: one turn points current->next at previous
RECURSIVE ListReverseLoop(_, _, _, _)
ListReverseLoop(l, current, previous, fuel) ==
    IF l.st # "ok" \/ current = NULL THEN l
    ELSE IF ~Ok(l, current) THEN ListAbnormal("undefined")
    ELSE IF fuel = 0 THEN ListAbnormal("diverged")
    ELSE ListReverseLoop(ListSetNext(l, current, previous), l.next[current],
                         current, fuel - 1)

\* Reverse without the exchange of head and tail that ends it
ListReverseKeepsEnds(l) == ListReverseLoop(l, l.head, NULL, Fuel(l))

\* Reverse()
ListReverse(l) ==
    LET r == ListReverseLoop(l, l.head, NULL, Fuel(l))
    IN  IF r.st # "ok" THEN r ELSE [r EXCEPT !.head = l.tail, !.tail = l.head]

\* IsEmpty()
ListIsEmpty(l) == l.size = 0

\* Size()
ListSize(l) == l.size

\* ConstIterator(start)
ListIter(l, start) ==
    IF start = NULL THEN [current |-> NULL, next |-> NULL, st |-> "ok"]
    ELSE IF ~Ok(l, start) THEN [current |-> NULL, next |-> NULL, st |-> "undefined"]
    ELSE [current |-> start, next |-> l.next[start], st |-> "ok"]

\* ConstIterator::operator++()
ListIterNext(l, itr) ==
    IF itr.st # "ok" \/ l.st # "ok" THEN [itr EXCEPT !.st = "undefined"]
    ELSE IF itr.next = NULL THEN [current |-> NULL, next |-> NULL, st |-> "ok"]
    ELSE IF ~Ok(l, itr.next) THEN [current |-> NULL, next |-> NULL, st |-> "undefined"]
    ELSE [current |-> itr.next, next |-> l.next[itr.next], st |-> "ok"]

\* ConstIterator::operator!=(other)
ListIterNotEqual(a, b) == ~(a.current = b.current /\ a.next = b.next)

\* begin()
ListBegin(l) == ListIter(l, l.head)

\* end()
ListEnd(l) == ListIter(l, NULL)

\* for (ConstIterator itr = begin(); itr != end(); ++itr) delete itr.GetNode();
RECURSIVE ListClearLoop(_, _, _)
ListClearLoop(l, itr, fuel) ==
    IF l.st # "ok" THEN l
    ELSE IF itr.st # "ok" THEN ListAbnormal(itr.st)
    ELSE IF ~ListIterNotEqual(itr, ListEnd(l)) THEN l
    ELSE IF fuel = 0 THEN ListAbnormal("diverged")
    ELSE LET d == ListDelete(l, itr.current)
         IN  ListClearLoop(d, ListIterNext(d, itr), fuel - 1)

\* Clear()
ListClear(l) ==
    LET c == ListClearLoop(l, ListBegin(l), Fuel(l))
    IN  IF c.st # "ok" THEN c
        ELSE [c EXCEPT !.head = NULL, !.tail = NULL, !.size = 0]

\* for (const int& x : list): the items operator* yields, in order
RECURSIVE ListIterateLoop(_, _, _, _)
ListIterateLoop(l, itr, seen, fuel) ==
    IF itr.st # "ok" THEN [st |-> itr.st, v |-> seen]
    ELSE IF ~ListIterNotEqual(itr, ListEnd(l)) THEN [st |-> "ok", v |-> seen]
    ELSE IF fuel = 0 THEN [st |-> "diverged", v |-> seen]
    ELSE IF ~Ok(l, itr.current) THEN [st |-> "undefined", v |-> seen]
    ELSE ListIterateLoop(l, ListIterNext(l, itr),
                         Append(seen, l.item[itr.current]), fuel - 1)

ListIterate(l) == ListIterateLoop(l, ListBegin(l), <<>>, Fuel(l))

\* The loop of IsValid: "true", "false", or how the call ended otherwise
RECURSIVE ListIsValidLoop(_, _, _, _)
ListIsValidLoop(l, current, elementCount, fuel) ==
    IF current = NULL
    THEN IF ListSize(l) # elementCount THEN "false" ELSE "true"
    ELSE IF ~Ok(l, current) THEN "undefined"
    ELSE IF fuel = 0 THEN "diverged"
    ELSE IF l.next[current] = NULL /\ l.tail # current THEN "false"
    ELSE ListIsValidLoop(l, l.next[current], elementCount + 1, fuel - 1)

\* IsValid()
ListIsValid(l) ==
    IF l.head # NULL /\ l.tail = NULL THEN "false"
    ELSE IF l.head = NULL /\ l.tail # NULL THEN "false"
    ELSE ListIsValidLoop(l, l.head, 0, Fuel(l))

\* List(std::initializer_list<T> l): Append of each element, in order
RECURSIVE ListOfInitializer(_)
ListOfInitializer(values) ==
    IF values = <<>> THEN ListEmpty
    ELSE ListAppend(ListOfInitializer(SubSeq(values, 1, Len(values) - 1)),
                    values[Len(values)])

-----------------------------------------------------------------------------
(* AVLTreeMorris (src/avltreemorris.h): a node has no parent pointer *)

\* AVLTreeMorris(): root(nullptr)
MorrisEmpty ==
    [root |-> NULL, item |-> <<>>, left |-> <<>>, right |-> <<>>,
     balanceFactor |-> <<>>, st |-> "ok"]

\* no iterator was constructed yet
NoIterator == [op |-> "none"]

NoLog == [op |-> "none"]

-----------------------------------------------------------------------------
(* The program: calls of Insert and Remove on an initially empty tree *)

NoOp == [op |-> "none"]

\* no const member function was called yet
NoOut == [op |-> "none"]

Init ==
    /\ rb = RBEmpty
    /\ rbKeys = {}
    /\ rbLast = NoOp
    /\ rbOps = 0
    /\ avl = AVLEmpty
    /\ avlKeys = {}
    /\ avlLast = NoOp
    /\ avlOps = 0
    /\ out = NoOut
    /\ list = ListEmpty
    /\ listModel = <<>>
    /\ listLast = NoOp
    /\ mt = MorrisEmpty
    /\ iter = NoIterator
    /\ iterLog = NoLog

RBInsertCall(k) ==
    /\ rb.st = "ok"
    /\ rbOps < MaxOps
    /\ rbOps' = rbOps + 1
    /\ rbLast' = [op |-> "Insert"]
    /\ rbKeys' = rbKeys \cup {k}
    /\ rb' = RBInsert(rb, k)
    /\ UNCHANGED <<avl, avlKeys, avlLast, avlOps, out,
                 list, listModel, listLast, mt, iter, iterLog>>

RBRemoveCall(k) ==
    /\ rb.st = "ok"
    /\ rbOps < MaxOps
    /\ rbOps' = rbOps + 1
    /\ rbLast' = [op |-> "Remove"]
    /\ rbKeys' = rbKeys \ {k}
    /\ rb' = RBRemove(rb, k)
    /\ UNCHANGED <<avl, avlKeys, avlLast, avlOps, out,
                 list, listModel, listLast, mt, iter, iterLog>>

NextRB ==
    \/ \E k \in Keys : RBInsertCall(k)
    \/ \E k \in Keys : RBRemoveCall(k)

SpecRB == Init /\ [][NextRB]_vars

AVLInsertCall(k) ==
    /\ avl.st = "ok"
    /\ avlOps < MaxOps
    /\ avlOps' = avlOps + 1
    /\ avlLast' = [op |-> "Insert"]
    /\ avlKeys' = avlKeys \cup {k}
    /\ avl' = AVLInsert(avl, k)
    /\ UNCHANGED <<rb, rbKeys, rbLast, rbOps, out,
                 list, listModel, listLast, mt, iter, iterLog>>

AVLRemoveCall(k) ==
    /\ avl.st = "ok"
    /\ avlOps < MaxOps
    /\ avlOps' = avlOps + 1
    /\ avlLast' = [op |-> "Remove"]
    /\ avlKeys' = avlKeys \ {k}
    /\ avl' = AVLRemove(avl, k)
    /\ UNCHANGED <<rb, rbKeys, rbLast, rbOps, out,
                 list, listModel, listLast, mt, iter, iterLog>>

NextAVL ==
    \/ \E k \in Keys : AVLInsertCall(k)
    \/ \E k \in Keys : AVLRemoveCall(k)

SpecAVL == Init /\ [][NextAVL]_vars

\* A run exercises one of the two trees, as each call of IntegerTreeTest<T>
\* does (main.cpp): the trees share no state.
NextTrees ==
    \/ avlLast = NoOp /\ NextRB
    \/ rbLast = NoOp /\ NextAVL

SpecTrees == Init /\ [][NextTrees]_vars

\* The round trip: keys not in the tree are inserted, in any order, and then
\* keys are removed, in any order, until the run stops.
RBRoundTripInsert(k) ==
    /\ k \notin rbKeys
    /\ rbLast.op # "Remove"
    /\ RBInsertCall(k)

RBRoundTripRemove(k) ==
    /\ k \in rbKeys
    /\ RBRemoveCall(k)

AVLRoundTripInsert(k) ==
    /\ k \notin avlKeys
    /\ avlLast.op # "Remove"
    /\ AVLInsertCall(k)

AVLRoundTripRemove(k) ==
    /\ k \in avlKeys
    /\ AVLRemoveCall(k)

NextRoundTrip ==
    \/ \E k \in Keys : avlLast = NoOp /\ RBRoundTripInsert(k)
    \/ \E k \in Keys : avlLast = NoOp /\ RBRoundTripRemove(k)
    \/ \E k \in Keys : rbLast = NoOp /\ AVLRoundTripInsert(k)
    \/ \E k \in Keys : rbLast = NoOp /\ AVLRoundTripRemove(k)

SpecRoundTrip == Init /\ [][NextRoundTrip]_vars

-----------------------------------------------------------------------------
(* What the trees are meant to be, read off the links themselves *)

\* The nodes below p by left and right links; UNDEF is among them when a link
\* leads to a node that is not live, or the links go round in a circle
RECURSIVE Below(_, _, _)
Below(h, p, fuel) ==
    IF p = NULL THEN {}
    ELSE IF ~Ok(h, p) \/ fuel = 0 THEN {UNDEF}
    ELSE {p} \cup Below(h, h.left[p], fuel - 1)
             \cup Below(h, h.right[p], fuel - 1)

Nodes(h) == Below(h, h.root, Cardinality(DOMAIN h.item))

\* the links from root form a finite tree of live nodes, each met once
IsTree(h) ==
    /\ h.st = "ok"
    /\ UNDEF \notin Nodes(h)
    /\ \A p, q \in Nodes(h) :
          /\ h.left[p] # NULL => h.left[p] # h.right[q]
          /\ (p # q /\ h.left[p] # NULL) => h.left[p] # h.left[q]
          /\ (p # q /\ h.right[p] # NULL) => h.right[p] # h.right[q]
    /\ \A p \in Nodes(h) : h.root \notin {h.left[p], h.right[p]}

\* the keys of the nodes below p
KeysBelow(h, p) ==
    {h.item[q] : q \in Below(h, p, Cardinality(DOMAIN h.item)) \ {UNDEF}}

\* every left descendant < node < every right descendant
BSTOrder(h) ==
    \A p \in Nodes(h) :
        /\ \A k \in KeysBelow(h, h.left[p]) : k < h.item[p]
        /\ \A k \in KeysBelow(h, h.right[p]) : h.item[p] < k

\* every child's parent link points at its actual parent, the root's at none
ParentLinks(h) ==
    /\ h.root # NULL => h.parent[h.root] = NULL
    /\ \A p \in Nodes(h) :
          /\ h.left[p] # NULL => h.parent[h.left[p]] = p
          /\ h.right[p] # NULL => h.parent[h.right[p]] = p

\* the ascending sequence of the keys of S
RECURSIVE Ascending(_)
Ascending(S) ==
    IF S = {} THEN <<>>
    ELSE LET m == CHOOSE x \in S : \A y \in S : x <= y
         IN  <<m>> \o Ascending(S \ {m})

RootBlack(h) == h.root # NULL => h.color[h.root] = "Black"

NoRedRed(h) ==
    \A p \in Nodes(h) :
        h.color[p] = "Red" =>
            /\ h.left[p] # NULL => h.color[h.left[p]] = "Black"
            /\ h.right[p] # NULL => h.color[h.right[p]] = "Black"

\* the numbers of Black nodes on the paths from p down to a null child
RECURSIVE BlackCounts(_, _)
BlackCounts(h, p) ==
    IF p = NULL THEN {0}
    ELSE {n + (IF h.color[p] = "Black" THEN 1 ELSE 0) :
            n \in BlackCounts(h, h.left[p]) \cup BlackCounts(h, h.right[p])}

EqualBlackCounts(h) == Cardinality(BlackCounts(h, h.root)) = 1

\* the number of nodes on the longest path from p down
RECURSIVE Height(_, _)
Height(h, p) ==
    IF p = NULL THEN 0
    ELSE 1 + Max(Height(h, h.left[p]), Height(h, h.right[p]))

FactorsAccurate(h) ==
    \A p \in Nodes(h) :
        /\ h.balanceFactor[p] \in {0 - 1, 0, 1}
        /\ h.balanceFactor[p] = Height(h, h.right[p]) - Height(h, h.left[p])

-----------------------------------------------------------------------------
(* Calls of const member functions on a tree built by Insert and Remove *)

\* the trees are built with at most this many calls before a const member
\* function is called on them
MaxBuildOps == 6

\* the other container of Intersect holds keys up to this one
MaxOtherKey == 4

\* what the other container's iterator yields: ascending, no duplicates
Others == {Ascending(S) : S \in SUBSET (1 .. MaxOtherKey)}

Range(seq) == {seq[i] : i \in DOMAIN seq}

\* the tree after a call of a const member function: the function assigns to
\* no node, so the tree is as before unless the call's behaviour is undefined
\* or the call never returns
RBAfterConst(h, st) == IF st = "ok" THEN h ELSE RBAbnormal(st)

AVLAfterConst(h, st) == IF st = "ok" THEN h ELSE AVLAbnormal(st)

BuildCall ==
    /\ out = NoOut
    /\ rbOps < MaxBuildOps
    /\ avlOps < MaxBuildOps
    /\ NextTrees

RBIntersectCall(other) ==
    /\ rb.st = "ok"
    /\ out = NoOut
    /\ avlLast = NoOp
    /\ LET intersectionTree == RBIntersect(rb, other)
       IN  /\ out' = [op |-> "Intersect", on |-> "RBTree", other |-> other,
                      tree |-> intersectionTree]
           /\ rb' = RBAfterConst(rb, intersectionTree.st)
    /\ UNCHANGED <<rbKeys, rbLast, rbOps, avl, avlKeys, avlLast, avlOps,
                 list, listModel, listLast, mt, iter, iterLog>>

AVLIntersectCall(other) ==
    /\ avl.st = "ok"
    /\ out = NoOut
    /\ rbLast = NoOp
    /\ LET intersectionTree == AVLIntersect(avl, other)
       IN  /\ out' = [op |-> "Intersect", on |-> "AVLTree", other |-> other,
                      tree |-> intersectionTree]
           /\ avl' = AVLAfterConst(avl, intersectionTree.st)
    /\ UNCHANGED <<rb, rbKeys, rbLast, rbOps, avlKeys, avlLast, avlOps,
                 list, listModel, listLast, mt, iter, iterLog>>

NextIntersect ==
    \/ BuildCall
    \/ \E other \in Others : RBIntersectCall(other)
    \/ \E other \in Others : AVLIntersectCall(other)

SpecIntersect == Init /\ [][NextIntersect]_vars

\* the trees on which Search, IsValid and the loops are called hold keys up
\* to this one
MaxConstKey == 6

\* and are built with at most this many calls
MaxConstOps == 9

\* how a call that yields v ended: v is the value returned unless it tells
\* that the call's behaviour is undefined or that it never returns
Returned(v) == IF v \in {"undefined", "diverged"} THEN v ELSE "ok"

\* for (itr = begin(); itr != end(); ++itr) { if (*itr == stop) break; ... }:
\* the items yielded before the loop is left, and how it is left.  A stop
\* that is no key of the tree lets the loop run to end().
RBInorderUntil(h, stop) ==
    LET RECURSIVE Loop(_, _, _)
        Loop(current, seq, fuel) ==
            IF current = NULL THEN [st |-> "ok", seq |-> seq]
            ELSE IF ~IsPtr(current) THEN [st |-> PtrStatus(current), seq |-> seq]
            ELSE IF ~Ok(h, current) THEN [st |-> "undefined", seq |-> seq]
            ELSE IF fuel = 0 THEN [st |-> "diverged", seq |-> seq]
            ELSE IF h.item[current] = stop THEN [st |-> "ok", seq |-> seq]
            ELSE Loop(RBNext(h, current), Append(seq, h.item[current]),
                      fuel - 1)
    IN  IF h.st # "ok" THEN [st |-> h.st, seq |-> <<>>]
        ELSE Loop(RBBegin(h), <<>>, Fuel(h))

\* for (auto &x : ConstPostorder(tree)) { if (x == stop) break; ... }
RBPostorderUntil(h, stop) ==
    LET RECURSIVE Loop(_, _, _)
        Loop(it, seq, fuel) ==
            IF it.st # "ok" THEN [st |-> it.st, seq |-> seq]
            ELSE IF ~RBPostNotEnd(it) THEN [st |-> "ok", seq |-> seq]
            ELSE IF ~Ok(h, it.current) THEN [st |-> "undefined", seq |-> seq]
            ELSE IF fuel = 0 THEN [st |-> "diverged", seq |-> seq]
            ELSE IF h.item[it.current] = stop THEN [st |-> "ok", seq |-> seq]
            ELSE Loop(RBPostNext(h, it), Append(seq, h.item[it.current]),
                      fuel - 1)
    IN  IF h.st # "ok" THEN [st |-> h.st, seq |-> <<>>]
        ELSE Loop(RBPostBegin(h), <<>>, 2 * Fuel(h))

\* for (itr = begin(); itr != end(); ++itr) { if (*itr == stop) break; ... }:
\* the items yielded before the loop is left, and how it is left.  A stop
\* that is no key of the tree lets the loop run to end().
AVLInorderUntil(h, stop) ==
    LET RECURSIVE Loop(_, _, _)
        Loop(current, seq, fuel) ==
            IF current = NULL THEN [st |-> "ok", seq |-> seq]
            ELSE IF ~IsPtr(current) THEN [st |-> PtrStatus(current), seq |-> seq]
            ELSE IF ~Ok(h, current) THEN [st |-> "undefined", seq |-> seq]
            ELSE IF fuel = 0 THEN [st |-> "diverged", seq |-> seq]
            ELSE IF h.item[current] = stop THEN [st |-> "ok", seq |-> seq]
            ELSE Loop(AVLNext(h, current), Append(seq, h.item[current]),
                      fuel - 1)
    IN  IF h.st # "ok" THEN [st |-> h.st, seq |-> <<>>]
        ELSE Loop(AVLBegin(h), <<>>, Fuel(h))

\* for (auto &x : ConstPostorder(tree)) { if (x == stop) break; ... }
AVLPostorderUntil(h, stop) ==
    LET RECURSIVE Loop(_, _, _)
        Loop(it, seq, fuel) ==
            IF it.st # "ok" THEN [st |-> it.st, seq |-> seq]
            ELSE IF ~AVLPostNotEnd(it) THEN [st |-> "ok", seq |-> seq]
            ELSE IF ~Ok(h, it.current) THEN [st |-> "undefined", seq |-> seq]
            ELSE IF fuel = 0 THEN [st |-> "diverged", seq |-> seq]
            ELSE IF h.item[it.current] = stop THEN [st |-> "ok", seq |-> seq]
            ELSE Loop(AVLPostNext(h, it), Append(seq, h.item[it.current]),
                      fuel - 1)
    IN  IF h.st # "ok" THEN [st |-> h.st, seq |-> <<>>]
        ELSE Loop(AVLPostBegin(h), <<>>, 2 * Fuel(h))

RBSearchCall(k) ==
    /\ rb.st = "ok"
    /\ out = NoOut
    /\ avlLast = NoOp
    /\ LET found == RBSearch(rb, k)
       IN  /\ out' = [op |-> "Search", on |-> "RBTree", item |-> k,
                      result |-> found]
           /\ rb' = RBAfterConst(rb, Returned(found))
    /\ UNCHANGED <<rbKeys, rbLast, rbOps, avl, avlKeys, avlLast, avlOps,
                 list, listModel, listLast, mt, iter, iterLog>>

RBIsValidCall ==
    /\ rb.st = "ok"
    /\ out = NoOut
    /\ avlLast = NoOp
    /\ LET valid == RBIsValid(rb)
       IN  /\ out' = [op |-> "IsValid", on |-> "RBTree", result |-> valid]
           /\ rb' = RBAfterConst(rb, Returned(valid))
    /\ UNCHANGED <<rbKeys, rbLast, rbOps, avl, avlKeys, avlLast, avlOps,
                 list, listModel, listLast, mt, iter, iterLog>>

RBInorderCall(stop) ==
    /\ rb.st = "ok"
    /\ out = NoOut
    /\ avlLast = NoOp
    /\ LET resultantSequence == RBInorderUntil(rb, stop)
       IN  /\ out' = [op |-> "inorder", on |-> "RBTree", stop |-> stop,
                      result |-> resultantSequence]
           /\ rb' = RBAfterConst(rb, resultantSequence.st)
    /\ UNCHANGED <<rbKeys, rbLast, rbOps, avl, avlKeys, avlLast, avlOps,
                 list, listModel, listLast, mt, iter, iterLog>>

RBPostorderCall(stop) ==
    /\ rb.st = "ok"
    /\ out = NoOut
    /\ avlLast = NoOp
    /\ LET resultantSequence == RBPostorderUntil(rb, stop)
       IN  /\ out' = [op |-> "postorder", on |-> "RBTree", stop |-> stop,
                      result |-> resultantSequence]
           /\ rb' = RBAfterConst(rb, resultantSequence.st)
    /\ UNCHANGED <<rbKeys, rbLast, rbOps, avl, avlKeys, avlLast, avlOps,
                 list, listModel, listLast, mt, iter, iterLog>>

AVLSearchCall(k) ==
    /\ avl.st = "ok"
    /\ out = NoOut
    /\ rbLast = NoOp
    /\ LET found == AVLSearch(avl, k)
       IN  /\ out' = [op |-> "Search", on |-> "AVLTree", item |-> k,
                      result |-> found]
           /\ avl' = AVLAfterConst(avl, Returned(found))
    /\ UNCHANGED <<rb, rbKeys, rbLast, rbOps, avlKeys, avlLast, avlOps,
                 list, listModel, listLast, mt, iter, iterLog>>

AVLIsValidCall ==
    /\ avl.st = "ok"
    /\ out = NoOut
    /\ rbLast = NoOp
    /\ LET valid == AVLIsValid(avl)
       IN  /\ out' = [op |-> "IsValid", on |-> "AVLTree", result |-> valid]
           /\ avl' = AVLAfterConst(avl, Returned(valid))
    /\ UNCHANGED <<rb, rbKeys, rbLast, rbOps, avlKeys, avlLast, avlOps,
                 list, listModel, listLast, mt, iter, iterLog>>

AVLInorderCall(stop) ==
    /\ avl.st = "ok"
    /\ out = NoOut
    /\ rbLast = NoOp
    /\ LET resultantSequence == AVLInorderUntil(avl, stop)
       IN  /\ out' = [op |-> "inorder", on |-> "AVLTree", stop |-> stop,
                      result |-> resultantSequence]
           /\ avl' = AVLAfterConst(avl, resultantSequence.st)
    /\ UNCHANGED <<rb, rbKeys, rbLast, rbOps, avlKeys, avlLast, avlOps,
                 list, listModel, listLast, mt, iter, iterLog>>

AVLPostorderCall(stop) ==
    /\ avl.st = "ok"
    /\ out = NoOut
    /\ rbLast = NoOp
    /\ LET resultantSequence == AVLPostorderUntil(avl, stop)
       IN  /\ out' = [op |-> "postorder", on |-> "AVLTree", stop |-> stop,
                      result |-> resultantSequence]
           /\ avl' = AVLAfterConst(avl, resultantSequence.st)
    /\ UNCHANGED <<rb, rbKeys, rbLast, rbOps, avlKeys, avlLast, avlOps,
                 list, listModel, listLast, mt, iter, iterLog>>

RBConstCall ==
    \/ \E k \in 1 .. MaxConstKey : RBSearchCall(k)
    \/ RBIsValidCall
    \/ \E other \in Others : RBIntersectCall(other)
    \/ \E stop \in 0 .. MaxConstKey : RBInorderCall(stop)
    \/ \E stop \in 0 .. MaxConstKey : RBPostorderCall(stop)

AVLConstCall ==
    \/ \E k \in 1 .. MaxConstKey : AVLSearchCall(k)
    \/ AVLIsValidCall
    \/ \E other \in Others : AVLIntersectCall(other)
    \/ \E stop \in 0 .. MaxConstKey : AVLInorderCall(stop)
    \/ \E stop \in 0 .. MaxConstKey : AVLPostorderCall(stop)

NextConst ==
    \/ \E k \in 1 .. MaxConstKey :
          /\ out = NoOut
          /\ avlLast = NoOp
          /\ rbOps < MaxConstOps
          /\ (RBInsertCall(k) \/ RBRemoveCall(k))
    \/ \E k \in 1 .. MaxConstKey :
          /\ out = NoOut
          /\ rbLast = NoOp
          /\ avlOps < MaxBuildOps
          /\ (AVLInsertCall(k) \/ AVLRemoveCall(k))
    \/ RBConstCall
    \/ AVLConstCall

SpecConst == Init /\ [][NextConst]_vars

-----------------------------------------------------------------------------
(* Calls of Clear between the calls of Insert and Remove *)

\* xLast after Clear tells how many nodes the tree had and whether its links
\* were those of a tree with consistent parent links

RBClearCall ==
    /\ rb.st = "ok"
    /\ avlLast = NoOp
    /\ rbOps < MaxConstOps
    /\ rbOps' = rbOps + 1
    /\ rbLast' = [op |-> "Clear", nodes |-> Cardinality(Nodes(rb)),
                  linked |-> IsTree(rb) /\ ParentLinks(rb)]
    /\ rbKeys' = {}
    /\ rb' = RBClear(rb)
    /\ UNCHANGED <<avl, avlKeys, avlLast, avlOps, out,
                 list, listModel, listLast, mt, iter, iterLog>>

AVLClearCall ==
    /\ avl.st = "ok"
    /\ rbLast = NoOp
    /\ avlOps < MaxConstOps
    /\ avlOps' = avlOps + 1
    /\ avlLast' = [op |-> "Clear", nodes |-> Cardinality(Nodes(avl)),
                  linked |-> IsTree(avl) /\ ParentLinks(avl)]
    /\ avlKeys' = {}
    /\ avl' = AVLClear(avl)
    /\ UNCHANGED <<rb, rbKeys, rbLast, rbOps, out,
                 list, listModel, listLast, mt, iter, iterLog>>

NextClear ==
    \/ \E k \in 1 .. MaxConstKey :
          /\ avlLast = NoOp
          /\ rbOps < MaxConstOps
          /\ (RBInsertCall(k) \/ RBRemoveCall(k))
    \/ \E k \in 1 .. MaxConstKey :
          /\ rbLast = NoOp
          /\ avlOps < MaxConstOps
          /\ (AVLInsertCall(k) \/ AVLRemoveCall(k))
    \/ RBClearCall
    \/ AVLClearCall

SpecClear == Init /\ [][NextClear]_vars

-----------------------------------------------------------------------------
(* The removal sweep of IntegerTreeTest *)

\* the sweep is run for the sizes N up to this one (the test has N = 1000)
MaxSweep == 9

\* One pass of the test's outer loop: on an empty tree, Insert of N keys,
\* ascending or descending, then Remove of one of them.  The test's keys
\* 0 .. N-1 are the keys 1 .. N here: key j + 1 stands for the test's j, and
\* its i for the key i + 1.  xLast holds the pass's N and direction.

RBSweepInsert(N, reverse) ==
    /\ rb.st = "ok"
    /\ avlLast = NoOp
    /\ rbLast = NoOp \/ rbLast = [op |-> "Insert", N |-> N, reverse |-> reverse]
    /\ rbOps < N
    /\ LET value == IF reverse THEN N - rbOps ELSE rbOps + 1
       IN  /\ rbKeys' = rbKeys \cup {value}
           /\ rb' = RBInsert(rb, value)
    /\ rbOps' = rbOps + 1
    /\ rbLast' = [op |-> "Insert", N |-> N, reverse |-> reverse]
    /\ UNCHANGED <<avl, avlKeys, avlLast, avlOps, out,
                 list, listModel, listLast, mt, iter, iterLog>>

RBSweepRemove(i) ==
    /\ rb.st = "ok"
    /\ rbLast.op = "Insert"
    /\ rbOps = rbLast.N
    /\ i <= rbLast.N
    /\ rbOps' = rbOps + 1
    /\ rbLast' = [op |-> "Remove", N |-> rbLast.N, i |-> i]
    /\ rbKeys' = rbKeys \ {i}
    /\ rb' = RBRemove(rb, i)
    /\ UNCHANGED <<avl, avlKeys, avlLast, avlOps, out,
                 list, listModel, listLast, mt, iter, iterLog>>

AVLSweepInsert(N, reverse) ==
    /\ avl.st = "ok"
    /\ rbLast = NoOp
    /\ avlLast = NoOp \/ avlLast = [op |-> "Insert", N |-> N, reverse |-> reverse]
    /\ avlOps < N
    /\ LET value == IF reverse THEN N - avlOps ELSE avlOps + 1
       IN  /\ avlKeys' = avlKeys \cup {value}
           /\ avl' = AVLInsert(avl, value)
    /\ avlOps' = avlOps + 1
    /\ avlLast' = [op |-> "Insert", N |-> N, reverse |-> reverse]
    /\ UNCHANGED <<rb, rbKeys, rbLast, rbOps, out,
                 list, listModel, listLast, mt, iter, iterLog>>

AVLSweepRemove(i) ==
    /\ avl.st = "ok"
    /\ avlLast.op = "Insert"
    /\ avlOps = avlLast.N
    /\ i <= avlLast.N
    /\ avlOps' = avlOps + 1
    /\ avlLast' = [op |-> "Remove", N |-> avlLast.N, i |-> i]
    /\ avlKeys' = avlKeys \ {i}
    /\ avl' = AVLRemove(avl, i)
    /\ UNCHANGED <<rb, rbKeys, rbLast, rbOps, out,
                 list, listModel, listLast, mt, iter, iterLog>>

NextSweep ==
    \/ \E N \in 1 .. MaxSweep, reverse \in BOOLEAN : RBSweepInsert(N, reverse)
    \/ \E i \in 1 .. MaxSweep : RBSweepRemove(i)
    \/ \E N \in 1 .. MaxSweep, reverse \in BOOLEAN : AVLSweepInsert(N, reverse)
    \/ \E i \in 1 .. MaxSweep : AVLSweepRemove(i)

SpecSweep == Init /\ [][NextSweep]_vars

-----------------------------------------------------------------------------
(* The insert and iteration tests of IntegerTreeTest *)

VALUES == <<2, 13, 10, 5, 12, 7, 17, 18, 37, 29, 11, 14, 15, 16>>

SORTED_VALUES == <<2, 5, 7, 10, 11, 12, 13, 14, 15, 16, 17, 18, 29, 37>>

\* the test inserts VALUES and later 4, 6 and 42; xOps tells how many of them
\* are inserted

RBScenarioInsert ==
    /\ rb.st = "ok"
    /\ out = NoOut
    /\ avlLast = NoOp
    /\ rbOps < Len(VALUES \o <<4, 6, 42>>)
    /\ LET x == (VALUES \o <<4, 6, 42>>)[rbOps + 1]
       IN  /\ rbKeys' = rbKeys \cup {x}
           /\ rb' = RBInsert(rb, x)
    /\ rbOps' = rbOps + 1
    /\ rbLast' = [op |-> "Insert"]
    /\ UNCHANGED <<avl, avlKeys, avlLast, avlOps, out,
                 list, listModel, listLast, mt, iter, iterLog>>

AVLScenarioInsert ==
    /\ avl.st = "ok"
    /\ out = NoOut
    /\ rbLast = NoOp
    /\ avlOps < Len(VALUES \o <<4, 6, 42>>)
    /\ LET x == (VALUES \o <<4, 6, 42>>)[avlOps + 1]
       IN  /\ avlKeys' = avlKeys \cup {x}
           /\ avl' = AVLInsert(avl, x)
    /\ avlOps' = avlOps + 1
    /\ avlLast' = [op |-> "Insert"]
    /\ UNCHANGED <<rb, rbKeys, rbLast, rbOps, out,
                 list, listModel, listLast, mt, iter, iterLog>>

\* resultantSequence.Clear() after a check: the test goes on
ResultClear ==
    /\ out # NoOut
    /\ out' = NoOut
    /\ UNCHANGED <<rb, rbKeys, rbLast, rbOps, avl, avlKeys, avlLast, avlOps,
                 list, listModel, listLast, mt, iter, iterLog>>

NextScenario ==
    \/ RBScenarioInsert
    \/ AVLScenarioInsert
    \/ RBIsValidCall
    \/ AVLIsValidCall
    \/ \E stop \in {0, 4, 6, 42} \cup Range(VALUES) :
          \/ RBInorderCall(stop)
          \/ RBPostorderCall(stop)
          \/ AVLInorderCall(stop)
          \/ AVLPostorderCall(stop)
    \/ ResultClear

SpecScenario == Init /\ [][NextScenario]_vars

-----------------------------------------------------------------------------
(* Move construction from a tree built by Insert and Remove *)

\* a move constructor that forgets other.root = nullptr
RBMoveKeepsRoot(other) == [tree |-> other, other |-> other]

\* RBTree::RBTree(RBTree&& other): the constructed tree and other
\* afterwards.  Both roots look into the one heap of nodes.
RBMove(other) ==
    [tree |-> RBSetRoot(RBSetRoot(other, NULL), other.root),
     other |-> RBSetRoot(other, NULL)]

RBMoveCall ==
    /\ rb.st = "ok"
    /\ out = NoOut
    /\ avlLast = NoOp
    /\ out' = [op |-> "move", on |-> "RBTree", tree |-> RBMove(rb).tree]
    /\ rb' = RBMove(rb).other
    /\ UNCHANGED <<rbKeys, rbLast, rbOps, avl, avlKeys, avlLast, avlOps,
                 list, listModel, listLast, mt, iter, iterLog>>

\* AVLTree::AVLTree(AVLTree&& other): the constructed tree and other
\* afterwards.  Both roots look into the one heap of nodes.
AVLMove(other) ==
    [tree |-> AVLSetRoot(AVLSetRoot(other, NULL), other.root),
     other |-> AVLSetRoot(other, NULL)]

AVLMoveCall ==
    /\ avl.st = "ok"
    /\ out = NoOut
    /\ rbLast = NoOp
    /\ out' = [op |-> "move", on |-> "AVLTree", tree |-> AVLMove(avl).tree]
    /\ avl' = AVLMove(avl).other
    /\ UNCHANGED <<rb, rbKeys, rbLast, rbOps, avlKeys, avlLast, avlOps,
                 list, listModel, listLast, mt, iter, iterLog>>

NextMove ==
    \/ BuildCall
    \/ RBMoveCall
    \/ AVLMoveCall

SpecMove == Init /\ [][NextMove]_vars

-----------------------------------------------------------------------------
(* Calls of Insert only *)

NextInsert ==
    \/ \E k \in Keys : avlLast = NoOp /\ RBInsertCall(k)
    \/ \E k \in Keys : rbLast = NoOp /\ AVLInsertCall(k)

SpecInsert == Init /\ [][NextInsert]_vars

-----------------------------------------------------------------------------
(* The claims *)

\* C1: after each Insert and Remove call on an RBTree grown from empty, the
\* root is Black, no Red node has a Red child, and every path from the root
\* down to a null child holds the same number of Black nodes.
C1_RBColourRules ==
    /\ IsTree(rb)
    /\ RootBlack(rb)
    /\ NoRedRed(rb)
    /\ EqualBlackCounts(rb)

\* C2: after each Insert and Remove call on an AVLTree grown from empty,
\* every node's balanceFactor is in {-1, 0, 1} and equals the height of its
\* right subtree minus the height of its left subtree.
C2_AVLFactors ==
    /\ IsTree(avl)
    /\ FactorsAccurate(avl)

\* C3: after each Insert and Remove call on an RBTree grown from empty, a
\* call of IsValid() terminates and returns true.
C3_RBIsValidTrue == RBIsValid(rb) = "true"

\* C4: after each Insert and Remove call on an RBTree grown from empty,
\* iterating from begin() with operator++ reaches end() and has yielded
\* exactly the keys inserted and not removed since, in ascending order.
C4_RBInorderIsS == RBInorder(rb) = [st |-> "ok", seq |-> Ascending(rbKeys)]

\* C5: after each Insert and Remove call on an AVLTree grown from empty,
\* iterating from begin() with operator++ reaches end() and has yielded
\* exactly the keys inserted and not removed since, in ascending order.
C5_AVLInorderIsS == AVLInorder(avl) = [st |-> "ok", seq |-> Ascending(avlKeys)]

\* C6: after each Insert and Remove call on an RBTree grown from empty,
\* Search(k) returns true exactly for the keys inserted and not removed since.
C6_RBSearchIsS ==
    \A k \in Keys : RBSearch(rb, k) = (IF k \in rbKeys THEN "true" ELSE "false")

\* C7: after each Insert and Remove call on an AVLTree grown from empty,
\* Search(k) returns true exactly for the keys inserted and not removed since.
C7_AVLSearchIsS ==
    \A k \in Keys : AVLSearch(avl, k) = (IF k \in avlKeys THEN "true" ELSE "false")

\* the tree satisfies all its invariants
RBAllInvariants(h) ==
    /\ IsTree(h)
    /\ BSTOrder(h)
    /\ ParentLinks(h)
    /\ RootBlack(h)
    /\ NoRedRed(h)
    /\ EqualBlackCounts(h)

AVLAllInvariants(h) ==
    /\ IsTree(h)
    /\ BSTOrder(h)
    /\ ParentLinks(h)
    /\ FactorsAccurate(h)

\* seq without x
Without(seq, x) == SelectSeq(seq, LAMBDA y : y # x)

\* C8: Remove(x) of a key x the tree contains, on a tree that satisfies all
\* its invariants (BST order, parent links, colour rules resp. accurate
\* factors): afterwards IsValid() returns true and inorder iteration yields
\* the previous sequence without x.  For both trees.
C8_RemoveOneStep ==
    [][\A x \in Keys :
          /\ (/\ RBSearch(rb, x) = "true"
              /\ RBRemoveCall(x)
              /\ RBAllInvariants(rb))
             => /\ RBIsValid(rb') = "true"
                /\ RBInorder(rb') = [st |-> "ok",
                       seq |-> Without(RBInorder(rb).seq, x)]
          /\ (/\ AVLSearch(avl, x) = "true"
              /\ AVLRemoveCall(x)
              /\ AVLAllInvariants(avl))
             => /\ AVLIsValid(avl') = "true"
                /\ AVLInorder(avl') = [st |-> "ok",
                       seq |-> Without(AVLInorder(avl).seq, x)]]_vars

\* C9: in a round trip IsValid() returns true after every Remove, and once
\* every key is removed the root is null and iteration yields nothing.  For
\* both trees.
C9_RoundTrip ==
    /\ rbLast.op = "Remove" =>
          /\ RBIsValid(rb) = "true"
          /\ rbKeys = {} =>
                rb.root = NULL /\ RBInorder(rb) = [st |-> "ok", seq |-> <<>>]
    /\ avlLast.op = "Remove" =>
          /\ AVLIsValid(avl) = "true"
          /\ avlKeys = {} =>
                avl.root = NULL /\ AVLInorder(avl) = [st |-> "ok", seq |-> <<>>]

\* C10: Insert(k) on a tree that holds a node with key k leaves the root,
\* every node's key, links and colour resp. balanceFactor, and the set of
\* live nodes unchanged.  For both trees.
C10_DuplicateInsert ==
    [][\A k \in Keys :
          /\ (k \in KeysBelow(rb, rb.root) /\ RBInsertCall(k)) => rb' = rb
          /\ (k \in KeysBelow(avl, avl.root) /\ AVLInsertCall(k))
             => avl' = avl]_vars

\* C11: Remove(k) on a tree that holds no node with key k returns normally
\* and leaves the root, every node's key, links and colour resp.
\* balanceFactor, and the set of live nodes unchanged.  For both trees.
C11_RemoveAbsent ==
    [][\A k \in Keys :
          /\ (k \notin KeysBelow(rb, rb.root) /\ RBRemoveCall(k)) => rb' = rb
          /\ (k \notin KeysBelow(avl, avl.root) /\ AVLRemoveCall(k))
             => avl' = avl]_vars

\* C12: no Insert, Remove or Search call on a tree grown from empty
\* dereferences a null pointer or a deleted node.  For both trees.
C12_NoStructuralFailure ==
    /\ rb.st # "undefined"
    /\ avl.st # "undefined"
    /\ \A k \in Keys : /\ RBSearch(rb, k) # "undefined"
                       /\ AVLSearch(avl, k) # "undefined"

\* the links of h form a binary search tree with consistent parent links
WellLinked(h) == IsTree(h) /\ BSTOrder(h) /\ ParentLinks(h)

\* C13: when A satisfies the BST-order and parent-link invariants and B
\* iterates ascending without duplicates, A.Intersect(B) returns a tree whose
\* inorder sequence is the ascending keys(A) \cap keys(B) and whose IsValid()
\* is true.  For A an RBTree and A an AVLTree.
C13_Intersect ==
    [][(out.op = "none" /\ out'.op = "Intersect") =>
          /\ (out'.on = "RBTree" /\ WellLinked(rb)) =>
                /\ RBInorder(out'.tree)
                   = [st |-> "ok",
                      seq |-> Ascending(KeysBelow(rb, rb.root)
                                        \cap Range(out'.other))]
                /\ RBIsValid(out'.tree) = "true"
          /\ (out'.on = "AVLTree" /\ WellLinked(avl)) =>
                /\ AVLInorder(out'.tree)
                   = [st |-> "ok",
                      seq |-> Ascending(KeysBelow(avl, avl.root)
                                        \cap Range(out'.other))]
                /\ AVLIsValid(out'.tree) = "true"]_vars

\* an Intersect of a well-linked tree with a container that shares some of
\* its keys, lacks some and has others, returned a tree of two keys or more
C13_IntersectReached ==
    /\ out.op = "Intersect"
    /\ out.on = "RBTree"
    /\ rb.st = "ok"
    /\ WellLinked(rb)
    /\ out.tree.st = "ok"
    /\ Cardinality(KeysBelow(out.tree, out.tree.root)) >= 2
    /\ KeysBelow(rb, rb.root) \ Range(out.other) # {}
    /\ Range(out.other) \ KeysBelow(rb, rb.root) # {}

\* C14: Search, IsValid, Intersect and an inorder or postorder loop, run to
\* end() or left at any element, change neither the root nor any node's key,
\* links or colour resp. balanceFactor.  For both trees, whatever sequence of
\* Insert and Remove calls built them.  (A call that never returns changes
\* nothing either.)
C14_ConstLeavesTree ==
    [][(out.op = "none" /\ out'.op # "none") =>
          /\ rb'.st # "diverged" => rb' = rb
          /\ avl'.st # "diverged" => avl' = avl]_vars

\* the items below p, each after those of its left and then those of its
\* right subtree
RECURSIVE PostorderOf(_, _)
PostorderOf(h, p) ==
    IF p = NULL THEN <<>>
    ELSE PostorderOf(h, h.left[p]) \o PostorderOf(h, h.right[p])
         \o <<h.item[p]>>

\* C15: on a tree of N nodes with BST order and consistent parent links, the
\* postorder loop from begin() to end() yields every node once, each after
\* all nodes of its left and then of its right subtree, the root last, and
\* ends after exactly N yields.  For both trees.
C15_Postorder ==
    [][(out.op = "none" /\ out'.op = "postorder" /\ out'.stop = 0) =>
          /\ (out'.on = "RBTree" /\ WellLinked(rb)) =>
                out'.result = [st |-> "ok", seq |-> PostorderOf(rb, rb.root)]
          /\ (out'.on = "AVLTree" /\ WellLinked(avl)) =>
                out'.result = [st |-> "ok", seq |-> PostorderOf(avl, avl.root)]
      ]_vars

\* a postorder loop ran to end() over a well-linked tree of five nodes or
\* more whose root has two children
C15_PostorderReached ==
    /\ out.op = "postorder"
    /\ out.stop = 0
    /\ out.on = "RBTree"
    /\ rb.st = "ok"
    /\ WellLinked(rb)
    /\ rb.root # NULL
    /\ rb.left[rb.root] # NULL
    /\ rb.right[rb.root] # NULL
    /\ Len(out.result.seq) >= 5

\* C16: the postorder iterator's operator++ and operator!= read no field of
\* a node already yielded: on a tree with consistent parent links the loop
\* of Clear and of the destructor, which deletes each yielded node before the
\* next ++, deletes every node of the tree exactly once and accesses no
\* deleted node.  For both trees.
C16_DeleteWhileIterating ==
    [][/\ (IsTree(rb) /\ ParentLinks(rb) /\ RBClearCall) =>
             /\ rb'.st = "ok"
             /\ Live(rb') = Live(rb) \ Nodes(rb)
       /\ (IsTree(avl) /\ ParentLinks(avl) /\ AVLClearCall) =>
             /\ avl'.st = "ok"
             /\ Live(avl') = Live(avl) \ Nodes(avl)]_vars

\* Clear has deleted the nodes of a tree of five nodes or more
C16_DeleteWhileIteratingReached ==
    /\ rbLast.op = "Clear"
    /\ rbLast.linked
    /\ rbLast.nodes >= 5
    /\ rb = RBEmpty

\* C17: after any sequence of Insert and Remove calls Clear() terminates,
\* deletes every node exactly once without accessing a deleted node and
\* leaves root null: the tree is as a newly constructed one, so IsValid() is
\* true, iteration yields nothing and later Inserts behave as on a new tree.
\* For both trees.
C17_Clear ==
    [][(RBClearCall => rb' = RBEmpty) /\ (AVLClearCall => avl' = AVLEmpty)
      ]_vars

\* C18: for every N >= 1 and every key i of 0 .. N-1, after Insert of
\* 0 .. N-1 in ascending order, or in descending order, and Remove(i),
\* IsValid() is true and iteration yields 0 .. N-1 without i in ascending
\* order.  For both trees.
C18_RemovalSweep ==
    /\ rbLast.op = "Remove" =>
          /\ RBIsValid(rb) = "true"
          /\ RBInorder(rb)
             = [st |-> "ok", seq |-> Ascending((1 .. rbLast.N) \ {rbLast.i})]
    /\ avlLast.op = "Remove" =>
          /\ AVLIsValid(avl) = "true"
          /\ AVLInorder(avl)
             = [st |-> "ok", seq |-> Ascending((1 .. avlLast.N) \ {avlLast.i})]

\* C19: after Insert of 2,13,10,5,12,7,17,18,37,29,11,14,15,16 in this order
\* into an empty tree, inorder iteration yields
\* 2,5,7,10,11,12,13,14,15,16,17,18,29,37 and IsValid() returns true.  For
\* both trees.
C19_InsertScenario ==
    LET yields(tree, ops) ==
            (out.op \in {"inorder", "IsValid"} /\ out.on = tree
             /\ ops = Len(VALUES)) =>
                /\ (out.op = "inorder" /\ out.stop = 0) =>
                      out.result = [st |-> "ok", seq |-> SORTED_VALUES]
                /\ out.op = "IsValid" => out.result = "true"
    IN  yields("RBTree", rbOps) /\ yields("AVLTree", avlOps)

\* the inorder loop ran to end() over the AVLTree that holds VALUES
C19_InsertScenarioReached ==
    /\ out.op = "inorder"
    /\ out.stop = 0
    /\ out.on = "AVLTree"
    /\ avlOps = Len(VALUES)
    /\ avl.st = "ok"
    /\ Len(out.result.seq) = Len(VALUES)

\* C20: after Insert of VALUES and then of 4, 6 and 42, postorder iteration
\* yields 4,2,6,7,5,11,12,10,14,16,17,15,29,42,37,18,13; a postorder loop
\* left at 37 yields that sequence up to 42, and a fresh loop after it the
\* whole sequence again.  The same for both trees.
C20_PostorderScenario ==
    LET expected == <<4, 2, 6, 7, 5, 11, 12, 10, 14, 16, 17, 15, 29, 42, 37,
                      18, 13>>
        yields(tree, ops) ==
            (out.op = "postorder" /\ out.on = tree /\ ops = Len(expected)) =>
                /\ out.stop = 0 => out.result = [st |-> "ok", seq |-> expected]
                /\ out.stop = 37 =>
                      out.result = [st |-> "ok", seq |-> SubSeq(expected, 1, 14)]
    IN  yields("RBTree", rbOps) /\ yields("AVLTree", avlOps)

\* the postorder loop ran to end() over the RBTree of the 17 keys
C20_PostorderScenarioReached ==
    /\ out.op = "postorder"
    /\ out.stop = 0
    /\ out.on = "RBTree"
    /\ rbOps = Len(VALUES) + 3
    /\ rb.st = "ok"
    /\ Len(out.result.seq) = Len(VALUES) + 3

\* C21: after any sequence of Insert and Remove calls a tree of n keys whose
\* longest root-to-leaf path has h nodes has, for RBTree, 2^h <= (n+1)^2 and,
\* for AVLTree, n >= F(h) where F(0) = 0, F(1) = 1, F(h) = F(h-1) + F(h-2) + 1.
C21_LogHeight ==
    LET RECURSIVE F(_)
        F(x) == IF x = 0 THEN 0
                ELSE IF x = 1 THEN 1
                ELSE F(x - 1) + F(x - 2) + 1
    IN  /\ IsTree(rb) =>
              2 ^ Height(rb, rb.root) <= (Cardinality(Nodes(rb)) + 1) ^ 2
        /\ IsTree(avl) =>
              Cardinality(Nodes(avl)) >= F(Height(avl, avl.root))

\* C22: constructing a tree from an rvalue tree gives the new tree the
\* source's former root, copies and modifies no node, and sets the source's
\* root to null: the source is an empty valid tree and no node is below both
\* roots.  For both trees.
C22_Move ==
    [][(out.op = "none" /\ out'.op = "move") =>
          /\ out'.on = "RBTree" =>
                /\ out'.tree = rb
                /\ rb' = [rb EXCEPT !.root = NULL]
                /\ RBIsValid(rb') = "true"
                /\ RBInorder(rb') = [st |-> "ok", seq |-> <<>>]
                /\ Nodes(rb') \cap Nodes(out'.tree) = {}
          /\ out'.on = "AVLTree" =>
                /\ out'.tree = avl
                /\ avl' = [avl EXCEPT !.root = NULL]
                /\ AVLIsValid(avl') = "true"
                /\ AVLInorder(avl') = [st |-> "ok", seq |-> <<>>]
                /\ Nodes(avl') \cap Nodes(out'.tree) = {}]_vars

\* a tree of three nodes or more was moved from
C22_MoveReached ==
    /\ out.op = "move"
    /\ out.on = "RBTree"
    /\ rb.root = NULL
    /\ out.tree.root # NULL
    /\ Cardinality(Nodes(out.tree)) >= 3

\* C23: after each call of every sequence of Insert calls on an initially
\* empty RBTree the tree has BST order, consistent parent links with a null
\* root->parent, a Black root, no Red node with a Red child and equal Black
\* counts on all paths from the root to a null child.
C23_RBInsertOnly ==
    /\ IsTree(rb)
    /\ BSTOrder(rb)
    /\ ParentLinks(rb)
    /\ RootBlack(rb)
    /\ NoRedRed(rb)
    /\ EqualBlackCounts(rb)
    /\ KeysBelow(rb, rb.root) = rbKeys

\* eight Insert calls or more made an RBTree of seven nodes or more
C23_RBInsertOnlyReached ==
    /\ rbOps >= 8
    /\ rb.st = "ok"
    /\ Cardinality(Nodes(rb)) >= 7

\* C24: after each call of every sequence of Insert calls on an initially
\* empty AVLTree the call has returned normally, every balanceFactor is in
\* {-1,0,1} and equals right height minus left height, BST order holds and
\* every child's parent link points at its parent.
C24_AVLInsertOnly ==
    /\ IsTree(avl)
    /\ FactorsAccurate(avl)
    /\ BSTOrder(avl)
    /\ ParentLinks(avl)

\* Remove(item) on h as far as the unlinking: the node found, the heap and the
\* balancePoint at the guard of the RemoveFixup call.
RBRemoveUnlinked(h, item) ==
    LET current == RBFind(h, h.root, item, Fuel(h))
    IN  IF ~IsPtr(current) \/ current = NULL
        THEN [found |-> FALSE]
        ELSE [found |-> TRUE, current |-> current,
              h |-> RBUnlink(h, current)[1],
              balancePoint |-> RBUnlink(h, current)[2]]

\* Whether Remove(item) on h reaches the call of RemoveFixup
RBRemoveRunsFixup(h, item) ==
    LET u == RBRemoveUnlinked(h, item)
    IN  /\ u.found
        /\ u.h.st = "ok"
        /\ RBNeedsFixup(u.h, u.current, u.balancePoint)

\* C25: every Remove on an RBTree that unlinks a node whose colour (after the
\* colour swap with the successor in the two-child case) is Black, and leaves
\* the tree non-empty, runs RemoveFixup before it returns; so does a Remove of
\* a node, or with a spliced-out successor, that has no child.
C25_FixupWhenBlackRemoved ==
    [][\A x \in Keys :
          (/\ rbLast'.op = "Remove"
           /\ rbOps' = rbOps + 1
           /\ rb' = RBRemove(rb, x)
           /\ RBRemoveUnlinked(rb, x).found
           /\ RBRemoveUnlinked(rb, x).h.st = "ok"
           /\ RBRemoveUnlinked(rb, x).h.root # NULL
           /\ RBRemoveUnlinked(rb, x).h.color[RBRemoveUnlinked(rb, x).current]
                  = "Black")
          => RBRemoveRunsFixup(rb, x)]_vars

\* the numbers of Black nodes on the paths from p down to a null child, the
\* node x counted once more than its colour says
RECURSIVE BlackCountsShort(_, _, _)
BlackCountsShort(h, p, x) ==
    IF p = NULL THEN {0}
    ELSE {n + (IF h.color[p] = "Black" THEN 1 ELSE 0) + (IF p = x THEN 1 ELSE 0) :
            n \in BlackCountsShort(h, h.left[p], x)
                  \cup BlackCountsShort(h, h.right[p], x)}

\* h is a red-black tree except that exactly the paths from the root to a
\* null child through x hold one Black node less than the others
OneBlackShort(h, x) ==
    /\ IsTree(h)
    /\ x \in Nodes(h)
    /\ BSTOrder(h)
    /\ ParentLinks(h)
    /\ RootBlack(h)
    /\ NoRedRed(h)
    /\ Cardinality(BlackCountsShort(h, h.root, x)) = 1

------------------------------------------------------------------------------
(* Calls of RemoveFixup on the trees it is written for *)

MaxFixupNodes == 9

\* A subtree as a term: <<>> for a null child, <<color, item, left, right>>
\* for a node.  RBTerms: the terms that hold exactly the keys lo .. hi in BST
\* order, have no Red node with a Red child and bh Black nodes on every path
\* down to a null child; redRoot says whether the root may be Red.
RECURSIVE RBTerms(_, _, _, _)
RBTerms(lo, hi, bh, redRoot) ==
    IF lo > hi THEN (IF bh = 0 THEN {<<>>} ELSE {})
    ELSE UNION {
           (IF bh >= 1
            THEN {<<"Black", k, l, r>> : l \in RBTerms(lo, k - 1, bh - 1, TRUE),
                                         r \in RBTerms(k + 1, hi, bh - 1, TRUE)}
            ELSE {})
           \cup
           (IF redRoot
            THEN {<<"Red", k, l, r>> : l \in RBTerms(lo, k - 1, bh, FALSE),
                                       r \in RBTerms(k + 1, hi, bh, FALSE)}
            ELSE {})
           : k \in lo .. hi}

\* The pairs <<term, x>> of such a term, but for the paths through its node
\* with key x, which hold bh - 1 Black nodes.
RECURSIVE RBShortTerms(_, _, _, _)
RBShortTerms(lo, hi, bh, redRoot) ==
    IF lo > hi THEN {}
    ELSE UNION {
           \* x is the root of the term
           (IF bh >= 2
            THEN {<<(<<"Black", k, l, r>>), k>> :
                      l \in RBTerms(lo, k - 1, bh - 2, TRUE),
                      r \in RBTerms(k + 1, hi, bh - 2, TRUE)}
            ELSE {})
           \cup
           (IF redRoot /\ bh >= 1
            THEN {<<(<<"Red", k, l, r>>), k>> :
                      l \in RBTerms(lo, k - 1, bh - 1, FALSE),
                      r \in RBTerms(k + 1, hi, bh - 1, FALSE)}
            ELSE {})
           \cup
           \* x is below a Black root
           (IF bh >= 1
            THEN {<<(<<"Black", k, l[1], r>>), l[2]>> :
                      l \in RBShortTerms(lo, k - 1, bh - 1, TRUE),
                      r \in RBTerms(k + 1, hi, bh - 1, TRUE)}
                 \cup
                 {<<(<<"Black", k, l, r[1]>>), r[2]>> :
                      l \in RBTerms(lo, k - 1, bh - 1, TRUE),
                      r \in RBShortTerms(k + 1, hi, bh - 1, TRUE)}
            ELSE {})
           \cup
           \* x is below a Red root
           (IF redRoot
            THEN {<<(<<"Red", k, l[1], r>>), l[2]>> :
                      l \in RBShortTerms(lo, k - 1, bh, FALSE),
                      r \in RBTerms(k + 1, hi, bh, FALSE)}
                 \cup
                 {<<(<<"Red", k, l, r[1]>>), r[2]>> :
                      l \in RBTerms(lo, k - 1, bh, FALSE),
                      r \in RBShortTerms(k + 1, hi, bh, FALSE)}
            ELSE {})
           : k \in lo .. hi}

\* the nodes of a term, each with the keys of its children and of its parent
RECURSIVE TermNodes(_, _)
TermNodes(t, parent) ==
    IF t = <<>> THEN {}
    ELSE LET Key(c) == IF c = <<>> THEN NULL ELSE c[2]
         IN  {[item |-> t[2], tag |-> t[1], left |-> Key(t[3]),
               right |-> Key(t[4]), parent |-> parent]}
             \cup TermNodes(t[3], t[2]) \cup TermNodes(t[4], t[2])

\* the RBTree of a term: the node with key k is at address k
RBOfTerm(t) ==
    LET N == TermNodes(t, NULL)
        At(a) == CHOOSE n \in N : n.item = a
        A == {n.item : n \in N}
    IN  [root |-> t[2],
         item |-> [a \in A |-> a],
         left |-> [a \in A |-> At(a).left],
         right |-> [a \in A |-> At(a).right],
         parent |-> [a \in A |-> At(a).parent],
         color |-> [a \in A |-> At(a).tag],
         st |-> "ok"]

\* the trees of at most MaxFixupNodes nodes with a Black root that are
\* red-black trees but for the paths through x, one Black node short
RBFixupInputs ==
    UNION {RBShortTerms(1, n, bh, FALSE) : n \in 1 .. MaxFixupNodes, bh \in 1 .. 4}

InitFixup ==
    /\ \E i \in RBFixupInputs :
          /\ rb = RBOfTerm(i[1])
          /\ rbKeys = 1 .. Cardinality(DOMAIN RBOfTerm(i[1]).item)
          /\ rbLast = [op |-> "none", x |-> i[2]]
    /\ rbOps = 0
    /\ avl = AVLEmpty
    /\ avlKeys = {}
    /\ avlLast = NoOp
    /\ avlOps = 0
    /\ out = NoOut
    /\ list = ListEmpty
    /\ listModel = <<>>
    /\ listLast = NoOp
    /\ mt = MorrisEmpty
    /\ iter = NoIterator
    /\ iterLog = NoLog

\* RemoveFixup(x)
RBRemoveFixupCall ==
    /\ rbLast.op = "none"
    /\ rbOps' = rbOps + 1
    /\ rbLast' = [op |-> "RemoveFixup", x |-> rbLast.x, before |-> rb]
    /\ rb' = RBRemoveFixup(rb, rbLast.x)
    /\ UNCHANGED <<rbKeys, avl, avlKeys, avlLast, avlOps, out,
                 list, listModel, listLast, mt, iter, iterLog>>

NextFixup == RBRemoveFixupCall

SpecFixup == InitFixup /\ [][NextFixup]_vars

\* C26: RemoveFixup(x), started on a tree that is a red-black tree except that
\* exactly the paths through x are one Black node short, terminates and
\* leaves what RB-DELETE-FIXUP of CLRS leaves: a tree with all the red-black
\* invariants, the same keys, and a root field that designates the one node
\* without a parent.
C26_RemoveFixupCLRS ==
    (rbLast.op = "RemoveFixup" /\ OneBlackShort(rbLast.before, rbLast.x))
    => /\ RBAllInvariants(rb)
       /\ KeysBelow(rb, rb.root) = rbKeys
       /\ \A p \in DOMAIN rbLast.before.item : rb.parent[p] = NULL <=> p = rb.root

\* the factors of p and of its children are the differences of the heights
\* of their subtrees
AccurateAt(h, p) ==
    \A q \in {p, h.left[p], h.right[p]} \ {NULL} :
        h.balanceFactor[q] = Height(h, h.right[q]) - Height(h, h.left[q])

\* C27: every call of Node::Balance that AVLTree::Insert makes is on a node
\* whose balanceFactor is 2 or -2 at the call, with accurate factors at that
\* node and at its children, and Balance rotates and returns a node, not
\* null.
C27_BalancePrecondition ==
    [][\A k \in Keys :
          (/\ avlLast'.op = "Insert"
           /\ avlOps' = avlOps + 1
           /\ avl' = AVLInsert(avl, k)
           /\ AVLInsertUpdated(avl, k).h.st = "ok"
           /\ AVLInsertUpdated(avl, k).balancePoint # NULL)
          => LET u == AVLInsertUpdated(avl, k)
             IN  /\ u.h.balanceFactor[u.balancePoint] \in {0 - 2, 2}
                 /\ AccurateAt(u.h, u.balancePoint)
                 /\ AVLBalance(u.h, u.balancePoint)[2] # NULL]_vars

\* The ancestors that Remove's propagation loop, started at predecessor,
\* adjusts and goes on past to adjust their parent, each with its updated
\* factor
RECURSIVE AVLPropagatePassed(_, _, _)
AVLPropagatePassed(h, predecessor, fuel) ==
    IF h.st # "ok" \/ ~Ok(h, predecessor) \/ fuel = 0 THEN {}
    ELSE LET pp == h.parent[predecessor] IN
         IF pp = NULL \/ ~Ok(h, pp) THEN {}
         ELSE IF h.left[pp] = predecessor
         THEN LET h1 == AVLAdd(h, pp, 1)
              IN  IF h1.balanceFactor[pp] = 1 THEN {}
                  ELSE IF h1.parent[pp] = NULL THEN {}
                  ELSE {<<pp, h1.balanceFactor[pp]>>}
                       \cup AVLPropagatePassed(h1, pp, fuel - 1)
         ELSE LET h1 == AVLAdd(h, pp, 0 - 1)
              IN  IF h1.balanceFactor[pp] = 0 - 1 THEN {}
                  ELSE IF h1.parent[pp] = NULL THEN {}
                  ELSE {<<pp, h1.balanceFactor[pp]>>}
                       \cup AVLPropagatePassed(h1, pp, fuel - 1)

\* The ancestors passed by the propagation loop of Remove(item) on h when the
\* node removed has at most one child
AVLRemovePassed(h, item) ==
    LET current == AVLFind(h, h.root, item, Fuel(h))
        c == IF h.left[current] # NULL THEN h.left[current] ELSE h.right[current]
        side == IF h.left[current] # NULL THEN "left" ELSE "right"
        u == AVLRemoveSimpleUnlinked(h, current, c, side)
    IN  IF ~IsPtr(current) \/ current = NULL THEN {}
        ELSE IF h.left[current] # NULL /\ h.right[current] # NULL THEN {}
        ELSE IF u.st # "ok" \/ u.parent[current] = NULL THEN {}
        ELSE IF ~Ok(u, u.parent[current]) THEN {}
        ELSE IF u.balanceFactor[u.parent[current]] # 0 THEN {}
        ELSE AVLPropagatePassed(u, u.parent[current], 4 * Fuel(u))

\* C28: the loop of AVLTree::Remove that tells the ancestors that a subtree
\* got shorter goes on past an ancestor only when that ancestor's updated
\* factor is exactly 0: it stops at the first ancestor whose updated factor is
\* not 0 and adjusts no node above an ancestor left at 1, -1, 2 or -2.
C28_PropagateWhileZero ==
    [][\A k \in Keys :
          (/\ avlLast'.op = "Remove"
           /\ avlOps' = avlOps + 1
           /\ avl' = AVLRemove(avl, k))
          => \A a \in AVLRemovePassed(avl, k) : a[2] = 0]_vars

------------------------------------------------------------------------------
(* Calls of Node::Balance on the nodes it is written for *)

MaxBalanceNodes == 10

\* the least number of nodes of an AVL tree of that height
RECURSIVE AVLMinNodes(_)
AVLMinNodes(height) ==
    IF height <= 0 THEN 0
    ELSE 1 + AVLMinNodes(height - 1) + AVLMinNodes(height - 2)

\* The subtrees as terms <<balanceFactor, item, left, right>> that hold
\* exactly the keys lo .. hi in BST order, are `height` nodes high and have
\* at every node an accurate factor in {-1, 0, 1}
RECURSIVE AVLTerms(_, _, _)
AVLTerms(lo, hi, height) ==
    IF lo > hi THEN (IF height = 0 THEN {<<>>} ELSE {})
    ELSE IF \/ height = 0
            \/ hi - lo + 1 >= 2 ^ height
            \/ hi - lo + 1 < AVLMinNodes(height)
         THEN {}
    ELSE UNION {
           {<<0, k, l, r>> : l \in AVLTerms(lo, k - 1, height - 1),
                             r \in AVLTerms(k + 1, hi, height - 1)}
           \cup
           (IF height >= 2
            THEN {<<0 - 1, k, l, r>> : l \in AVLTerms(lo, k - 1, height - 1),
                                       r \in AVLTerms(k + 1, hi, height - 2)}
                 \cup
                 {<<1, k, l, r>> : l \in AVLTerms(lo, k - 1, height - 2),
                                   r \in AVLTerms(k + 1, hi, height - 1)}
            ELSE {})
           : k \in lo .. hi}

\* The terms over the keys lo .. hi whose root has factor -2 or 2, accurate,
\* above two such subtrees
AVLBalanceTerms(lo, hi) ==
    UNION {
      {<<0 - 2, k, l, r>> : l \in AVLTerms(lo, k - 1, height - 1),
                            r \in AVLTerms(k + 1, hi, height - 3)}
      \cup
      {<<2, k, l, r>> : l \in AVLTerms(lo, k - 1, height - 3),
                        r \in AVLTerms(k + 1, hi, height - 1)}
      : k \in lo .. hi,
        height \in {x \in 3 .. (hi - lo + 1) :
                       /\ hi - lo >= AVLMinNodes(x - 1) + AVLMinNodes(x - 3)
                       /\ hi - lo < 2 ^ x}}

\* the AVLTree of a term: the node with key k is at address k
AVLOfTerm(t) ==
    LET N == TermNodes(t, NULL)
        At(a) == CHOOSE n \in N : n.item = a
        A == {n.item : n \in N}
    IN  [root |-> t[2],
         item |-> [a \in A |-> a],
         left |-> [a \in A |-> At(a).left],
         right |-> [a \in A |-> At(a).right],
         parent |-> [a \in A |-> At(a).parent],
         balanceFactor |-> [a \in A |-> At(a).tag],
         st |-> "ok"]

\* The trees Balance is called in, each with the node it is called on: that
\* node is the root, or the left or the right child of the root, and its
\* subtree holds at most MaxBalanceNodes nodes
AVLBalanceInputs ==
    UNION {
      {<<t, t[2]>> : t \in AVLBalanceTerms(1, n)}
      \cup {<<(<<0 - 1, n + 2, t, <<>>>>), t[2]>> :
               t \in AVLBalanceTerms(2, n + 1)}
      \cup {<<(<<1, 1, <<>>, t>>), t[2]>> :
               t \in AVLBalanceTerms(2, n + 1)}
      : n \in 1 .. MaxBalanceNodes}

InitBalance ==
    /\ \E i \in AVLBalanceInputs :
          /\ avl = AVLOfTerm(i[1])
          /\ avlKeys = {AVLOfTerm(i[1]).item[a] : a \in DOMAIN AVLOfTerm(i[1]).item}
          /\ avlLast = [op |-> "none", this |-> i[2]]
    /\ avlOps = 0
    /\ rb = RBEmpty
    /\ rbKeys = {}
    /\ rbLast = NoOp
    /\ rbOps = 0
    /\ out = NoOut
    /\ list = ListEmpty
    /\ listModel = <<>>
    /\ listLast = NoOp
    /\ mt = MorrisEmpty
    /\ iter = NoIterator
    /\ iterLog = NoLog

\* this->Balance()
AVLBalanceCall ==
    /\ avlLast.op = "none"
    /\ avlOps' = avlOps + 1
    /\ avlLast' = [op |-> "Balance", this |-> avlLast.this, before |-> avl,
                   p |-> AVLBalance(avl, avlLast.this)[2]]
    /\ avl' = AVLBalance(avl, avlLast.this)[1]
    /\ UNCHANGED <<avlKeys, rb, rbKeys, rbLast, rbOps, out,
                 list, listModel, listLast, mt, iter, iterLog>>

NextBalance == AVLBalanceCall

SpecBalance == InitBalance /\ [][NextBalance]_vars

\* the nodes of the subtree at p
Subtree(h, p) == Below(h, p, Cardinality(DOMAIN h.item))

\* every node of the subtree at p but p itself has an accurate factor in
\* {-1, 0, 1}, and p has an accurate factor
AVLBelow(h, p) ==
    /\ h.st = "ok"
    /\ UNDEF \notin Subtree(h, p)
    /\ \A q \in Subtree(h, p) :
          /\ h.balanceFactor[q] = Height(h, h.right[q]) - Height(h, h.left[q])
          /\ q # p => h.balanceFactor[q] \in {0 - 1, 0, 1}

\* C29: Balance(), called on a node with factor 2 or -2 whose factors and
\* whose subtrees' factors are accurate, the subtrees being AVL trees,
\* returns the root of a subtree that holds the same keys in BST order, with
\* an accurate factor in {-1, 0, 1} at every node and child and parent links
\* that agree; the node returned has the parent the node had; and the
\* rotation is a double one exactly when the factor of the heavy child has
\* the opposite sign.
C29_BalancePostcondition ==
    (/\ avlLast.op = "Balance"
     /\ avlLast.before.balanceFactor[avlLast.this] \in {0 - 2, 2}
     /\ AVLBelow(avlLast.before, avlLast.this))
    => LET b == avlLast.before
           this == avlLast.this
           p == avlLast.p
           w == IF b.balanceFactor[this] < 0 THEN b.left[this] ELSE b.right[this]
           opposite == b.balanceFactor[w] * b.balanceFactor[this] < 0
           grandchild == IF b.balanceFactor[this] < 0 THEN b.right[w]
                         ELSE b.left[w]
       IN  /\ avl.st = "ok"
           /\ p # NULL
           /\ UNDEF \notin Subtree(avl, p)
           /\ Subtree(avl, p) = Subtree(b, this)
           /\ KeysBelow(avl, p) = KeysBelow(b, this)
           /\ \A q \in Subtree(avl, p) :
                 /\ \A k \in KeysBelow(avl, avl.left[q]) : k < avl.item[q]
                 /\ \A k \in KeysBelow(avl, avl.right[q]) : avl.item[q] < k
                 /\ avl.balanceFactor[q] \in {0 - 1, 0, 1}
                 /\ avl.balanceFactor[q]
                        = Height(avl, avl.right[q]) - Height(avl, avl.left[q])
                 /\ avl.left[q] # NULL => avl.parent[avl.left[q]] = q
                 /\ avl.right[q] # NULL => avl.parent[avl.right[q]] = q
           /\ avl.parent[p] = b.parent[this]
           /\ p = (IF opposite THEN grandchild ELSE w)

\* Balance has made a double rotation below a parent
C29_BalancePostconditionReached ==
    /\ avlLast.op = "Balance"
    /\ avlLast.before.parent[avlLast.this] # NULL
    /\ avlLast.before.balanceFactor[avlLast.this] = 0 - 2
    /\ avlLast.before.balanceFactor[avlLast.before.left[avlLast.this]] = 1
    /\ avlLast.p = avlLast.before.right[avlLast.before.left[avlLast.this]]
    /\ Cardinality(Subtree(avl, avlLast.p)) >= 6

------------------------------------------------------------------------------
(* Calls of Node::RightRotate and Node::LeftRotate *)

MaxRotateNodes == 8

\* the AVL subtrees of that height and of at most most nodes whose least key
\* is lo
AVLTermsFrom(lo, height, most) ==
    UNION {AVLTerms(lo, lo + n - 1, height) :
             n \in AVLMinNodes(height) .. Min(2 ^ height - 1, most)}

TermSize(t) == Cardinality(TermNodes(t, NULL))

\* The terms with least key lo for a node P and its child Q, Q on the side
\* other than dir, above subtrees a, b, c (in key order), at most
\* MaxRotateNodes nodes in all: the factors of P and Q are the differences of
\* the heights of their subtrees, and that of P is in -2 .. 2
AVLRotateTerms(lo, dir) ==
    LET H == 0 .. MaxRotateNodes
        most == MaxRotateNodes - 2
        Fits(x) == AVLMinNodes(x[1]) + AVLMinNodes(x[2]) + AVLMinNodes(x[3])
                       <= most
        \* Q is the left child: P(Q(a, b), c)
        Right(a, b, c, ha, hb, hc) ==
            <<hc - (1 + Max(ha, hb)), lo + TermSize(a) + TermSize(b) + 1,
              <<hb - ha, lo + TermSize(a), a, b>>, c>>
        \* Q is the right child: P(a, Q(b, c))
        Left(a, b, c, ha, hb, hc) ==
            <<(1 + Max(hb, hc)) - ha, lo + TermSize(a),
              a, <<hc - hb, lo + TermSize(a) + TermSize(b) + 1, b, c>>>>
        Heights ==
            IF dir = "right"
            THEN {x \in H \X H \X H :
                    Fits(x) /\ x[3] - (1 + Max(x[1], x[2])) \in (0 - 2) .. 2}
            ELSE {x \in H \X H \X H :
                    Fits(x) /\ (1 + Max(x[2], x[3])) - x[1] \in (0 - 2) .. 2}
    IN  UNION {
          UNION {
            UNION {
              {IF dir = "right" THEN Right(a, b, c, x[1], x[2], x[3])
               ELSE Left(a, b, c, x[1], x[2], x[3])
               : c \in AVLTermsFrom(lo + TermSize(a) + TermSize(b) + 2, x[3],
                                    most - TermSize(a) - TermSize(b))}
              : b \in AVLTermsFrom(lo + TermSize(a) + 1, x[2],
                                  most - TermSize(a))}
            : a \in AVLTermsFrom(lo, x[1], most)}
          : x \in Heights}

\* The trees a rotation is called in, with the node P it is called on and its
\* direction: P is the root, or the left child of the root
AVLRotateInputs ==
    UNION {
      {<<t, t[2], dir>> : t \in AVLRotateTerms(1, dir)}
      \cup {<<(<<0 - 1, TermSize(t) + 1, t, <<>>>>), t[2], dir>> :
               t \in AVLRotateTerms(1, dir)}
      : dir \in {"left", "right"}}

InitRotate ==
    /\ \E i \in AVLRotateInputs :
          /\ avl = AVLOfTerm(i[1])
          /\ avlKeys = 1 .. TermSize(i[1])
          /\ avlLast = [op |-> "none", this |-> i[2], dir |-> i[3]]
    /\ avlOps = 0
    /\ rb = RBEmpty
    /\ rbKeys = {}
    /\ rbLast = NoOp
    /\ rbOps = 0
    /\ out = NoOut
    /\ list = ListEmpty
    /\ listModel = <<>>
    /\ listLast = NoOp
    /\ mt = MorrisEmpty
    /\ iter = NoIterator
    /\ iterLog = NoLog

\* this->RightRotate() or this->LeftRotate()
AVLRotateCall ==
    /\ avlLast.op = "none"
    /\ avlOps' = avlOps + 1
    /\ avlLast' = [op |-> "Rotate", this |-> avlLast.this, dir |-> avlLast.dir,
                   before |-> avl,
                   q |-> AVLRotate(avl, avlLast.this, avlLast.dir)[2]]
    /\ avl' = AVLRotate(avl, avlLast.this, avlLast.dir)[1]
    /\ UNCHANGED <<avlKeys, rb, rbKeys, rbLast, rbOps, out,
                 list, listModel, listLast, mt, iter, iterLog>>

NextRotate == AVLRotateCall

SpecRotate == InitRotate /\ [][NextRotate]_vars

\* the keys of the subtree at p from left to right
RECURSIVE InorderOf(_, _)
InorderOf(h, p) ==
    IF p = NULL THEN <<>>
    ELSE InorderOf(h, h.left[p]) \o <<h.item[p]>> \o InorderOf(h, h.right[p])

\* the factor of p is the difference of the heights of its subtrees
AccurateFactor(h, p) ==
    h.balanceFactor[p] = Height(h, h.right[p]) - Height(h, h.left[p])

\* C30: RightRotate() and LeftRotate(), called on a node P with child Q whose
\* factors are the differences of the heights of their subtrees, P's being in
\* -2 .. 2, leave P and Q with factors that are those differences in the
\* rotated shape, keep the keys of the subtree in the same order from left to
\* right, and set Q's parent to the parent P had, P's parent to Q and the
\* parent of the grandchild that changed sides to P.
C30_RotationArithmetic ==
    (/\ avlLast.op = "Rotate"
     /\ avlLast.before.balanceFactor[avlLast.this] \in (0 - 2) .. 2
     /\ AccurateAt(avlLast.before, avlLast.this))
    => LET b == avlLast.before
           P == avlLast.this
           Q == IF avlLast.dir = "right" THEN b.left[P] ELSE b.right[P]
           moved == IF avlLast.dir = "right" THEN b.right[Q] ELSE b.left[Q]
       IN  /\ avl.st = "ok"
           /\ avlLast.q = Q
           /\ AccurateFactor(avl, P)
           /\ AccurateFactor(avl, Q)
           /\ InorderOf(avl, Q) = InorderOf(b, P)
           /\ avl.parent[Q] = b.parent[P]
           /\ avl.parent[P] = Q
           /\ moved # NULL => avl.parent[moved] = P
           /\ (IF avlLast.dir = "right" THEN avl.left[P] ELSE avl.right[P]) = moved
           /\ (IF avlLast.dir = "right" THEN avl.right[Q] ELSE avl.left[Q]) = P

\* a rotation has moved a grandchild from Q to P below a parent, and left P
\* with a factor other than 0
C30_RotationArithmeticReached ==
    /\ avlLast.op = "Rotate"
    /\ avlLast.q # NULL
    /\ avlLast.before.parent[avlLast.this] # NULL
    /\ avlLast.before.balanceFactor[avlLast.this] \in {0 - 2, 2}
    /\ avl.balanceFactor[avlLast.this] # 0
    /\ (IF avlLast.dir = "right" THEN avl.left[avlLast.this]
        ELSE avl.right[avlLast.this]) # NULL

\* The turns of InsertFixup's loop on s = <<heap, z>>: for each turn the
\* number of rotations it makes, 0 for a turn that recolours and moves z up
RECURSIVE RBInsertFixupTurns(_, _)
RBInsertFixupTurns(s, fuel) ==
    LET h == s[1]
        z == s[2]
        side == IF h.parent[z] = h.left[h.parent[h.parent[z]]] THEN "left"
                ELSE "right"
        y == h[Other(side)][h.parent[h.parent[z]]]
        rotations == IF y # NULL /\ h.color[y] = "Red" THEN 0
                     ELSE IF z = h[Other(side)][h.parent[z]] THEN 2
                     ELSE 1
    IN
    IF h.st # "ok" \/ z = h.root \/ ~Ok(h, z) \/ ~Ok(h, h.parent[z]) THEN <<>>
    ELSE IF h.color[h.parent[z]] # "Red" \/ fuel = 0 THEN <<>>
    ELSE IF ~Ok(h, h.parent[h.parent[z]]) \/ ~OkOrNull(h, y) THEN <<>>
    ELSE <<rotations>> \o RBInsertFixupTurns(RBInsertFixupStep(h, z, side),
                                             fuel - 1)

\* C31: RBTree::Insert makes at most two rotations: a turn of InsertFixup's
\* loop either recolours and moves z two levels up, or makes one rotation,
\* with one aligning rotation before it or none, and is then the last turn;
\* the loop terminates, and the root is Black when Insert returns.
C31_InsertRotations ==
    [][\A k \in Keys :
          (/\ rbLast'.op = "Insert"
           /\ rbOps' = rbOps + 1
           /\ rb' = RBInsert(rb, k)
           /\ RBInsertAttached(rb, k).fixup)
          => LET u == RBInsertAttached(rb, k)
                 turns == RBInsertFixupTurns(<<u.h, u.node>>, 2 * Fuel(u.h))
             IN  /\ \A i \in 1 .. Len(turns) :
                       turns[i] \in {1, 2} => i = Len(turns)
                 /\ rb'.st = "ok"
                 /\ rb'.root # NULL
                 /\ rb'.color[rb'.root] = "Black"]_vars

\* C32: on every RBTree with BST order and parent links that agree with the
\* child links, IsValid() returns true exactly when the root is Black or the
\* tree is empty, no Red node has a Red child, and every path from the root
\* down to a null child, that of a node with one child included, holds the
\* same number of Black nodes.
C32_RBIsValidExact ==
    (IsTree(rb) /\ BSTOrder(rb) /\ ParentLinks(rb))
    => (RBIsValid(rb) = "true"
           <=> (RootBlack(rb) /\ NoRedRed(rb) /\ EqualBlackCounts(rb)))

\* the nodes that current designates in the turns of CalculateHeight's main
\* loop
RECURSIVE AVLHeightVisited(_, _, _, _, _)
AVLHeightVisited(h, this, current, currentHeight, fuel) ==
    IF current = NULL \/ current = h.parent[this] THEN {}
    ELSE IF ~Ok(h, current) \/ fuel = 0 THEN {}
    ELSE LET d == IF h.right[current] # NULL
                  THEN AVLHeightDescend(h, h.right[current],
                                        currentHeight + 1, Fuel(h))
                  ELSE AVLHeightAscend(h, this, current, currentHeight,
                                       Fuel(h))
         IN  {current} \cup
             (IF d.st # "ok" THEN {}
              ELSE AVLHeightVisited(h, this, d.v[1], d.v[2], fuel - 1))

\* C33: on every AVLTree with parent links that agree with the child links,
\* CalculateHeight() of a node returns the number of edges on the longest
\* path down from it and walks over the nodes of its subtree only, and
\* IsValid() returns true exactly when every node's balanceFactor is in
\* {-1, 0, 1} and is the height of its right subtree minus that of its left
\* subtree.
C33_AVLIsValidExact ==
    (IsTree(avl) /\ ParentLinks(avl))
    => /\ \A p \in Nodes(avl) :
             /\ CalculateHeight(avl, p) = HeightResult("ok", Height(avl, p) - 1)
             /\ AVLHeightVisited(avl, p,
                    AVLHeightDescend(avl, p, 0, Fuel(avl)).v[1],
                    AVLHeightDescend(avl, p, 0, Fuel(avl)).v[2],
                    4 * Fuel(avl)) = Subtree(avl, p)
       /\ AVLIsValid(avl) = "true" <=> FactorsAccurate(avl)

\* a tree with consistent links whose factors are all in {-1, 0, 1} and that
\* IsValid() rejects by the heights it calculates
C33_AVLIsValidExactReached ==
    /\ IsTree(avl)
    /\ ParentLinks(avl)
    /\ Cardinality(Nodes(avl)) >= 5
    /\ \A p \in Nodes(avl) : avl.balanceFactor[p] \in {0 - 1, 0, 1}
    /\ AVLIsValid(avl) = "false"

\* C34: after any sequence of Insert and Remove calls on an RBTree, root is
\* null or has no parent, and every node reachable from root is the parent of
\* its left child and of its right child, where it has them.
C34_RBParentLinks == IsTree(rb) /\ ParentLinks(rb)

\* C35: after any sequence of Insert and Remove calls on an AVLTree, root is
\* null or has no parent, and every node reachable from root is the parent of
\* its left child and of its right child, where it has them.
C35_AVLParentLinks == IsTree(avl) /\ ParentLinks(avl)

-----------------------------------------------------------------------------
(* Calls of Insert, Append, Reverse and Clear on a List<int> *)

\* the items of the list are 1..MaxListItem
MaxListItem == 2

\* the list holds at most this many items
MaxListLen == 4

\* the initializer lists have at most this many elements
MaxListInit == 2

ListItems == 1 .. MaxListItem

\* the sequences of items of length n
RECURSIVE ListSeqs(_)
ListSeqs(n) ==
    IF n = 0 THEN {<<>>}
    ELSE {Append(s, x) : s \in ListSeqs(n - 1), x \in ListItems}

\* the reverse of a sequence
ReverseSeq(s) == [i \in 1 .. Len(s) |-> s[Len(s) + 1 - i]]

\* List<int> l; or List<int> l(values);
InitList ==
    /\ rb = RBEmpty
    /\ rbKeys = {}
    /\ rbLast = NoOp
    /\ rbOps = 0
    /\ avl = AVLEmpty
    /\ avlKeys = {}
    /\ avlLast = NoOp
    /\ avlOps = 0
    /\ out = NoOut
    /\ \E n \in 0 .. MaxListInit : \E values \in ListSeqs(n) :
          /\ list = ListOfInitializer(values)
          /\ listModel = values
    /\ listLast = NoOp
    /\ mt = MorrisEmpty
    /\ iter = NoIterator
    /\ iterLog = NoLog

ListInsertCall(x) ==
    /\ list.st = "ok"
    /\ Len(listModel) < MaxListLen
    /\ list' = ListInsert(list, x)
    /\ listModel' = <<x>> \o listModel
    /\ listLast' = [op |-> "Insert"]
    /\ UNCHANGED <<rb, rbKeys, rbLast, rbOps, avl, avlKeys, avlLast, avlOps,
                   out, mt, iter, iterLog>>

ListAppendCall(x) ==
    /\ list.st = "ok"
    /\ Len(listModel) < MaxListLen
    /\ list' = ListAppend(list, x)
    /\ listModel' = Append(listModel, x)
    /\ listLast' = [op |-> "Append"]
    /\ UNCHANGED <<rb, rbKeys, rbLast, rbOps, avl, avlKeys, avlLast, avlOps,
                   out, mt, iter, iterLog>>

ListReverseCall ==
    /\ list.st = "ok"
    /\ list' = ListReverse(list)
    /\ listModel' = ReverseSeq(listModel)
    /\ listLast' = [op |-> "Reverse"]
    /\ UNCHANGED <<rb, rbKeys, rbLast, rbOps, avl, avlKeys, avlLast, avlOps,
                   out, mt, iter, iterLog>>

ListClearCall ==
    /\ list.st = "ok"
    /\ list' = ListClear(list)
    /\ listModel' = <<>>
    /\ listLast' = [op |-> "Clear"]
    /\ UNCHANGED <<rb, rbKeys, rbLast, rbOps, avl, avlKeys, avlLast, avlOps,
                   out, mt, iter, iterLog>>

NextList ==
    \/ \E x \in ListItems : ListInsertCall(x)
    \/ \E x \in ListItems : ListAppendCall(x)
    \/ ListReverseCall
    \/ ListClearCall

SpecList == InitList /\ [][NextList]_vars

\* the nodes from p on, following next
RECURSIVE ListChain(_, _, _)
ListChain(l, p, fuel) ==
    IF p = NULL \/ ~Ok(l, p) \/ fuel = 0 THEN <<>>
    ELSE <<p>> \o ListChain(l, l.next[p], fuel - 1)

\* C36: after any calls of Insert, Append, Reverse and Clear on a list that
\* was empty or built from an initializer list, the range-for loop yields the
\* items of the sequence these calls describe, Size() is its length, IsEmpty()
\* tells whether it is empty and IsValid() returns true: head and tail are
\* both null or both set, the tail is the one node whose next is null, and
\* the nodes reached from the head are as many as size.
C36_ListRefinesSequence ==
    LET chain == ListChain(list, list.head, Fuel(list))
    IN  /\ list.st = "ok"
        /\ ListIterate(list) = [st |-> "ok", v |-> listModel]
        /\ ListSize(list) = Len(listModel)
        /\ ListIsEmpty(list) <=> Len(listModel) = 0
        /\ ListIsValid(list) = "true"
        /\ (list.head = NULL) <=> (list.tail = NULL)
        /\ \A p \in DOMAIN list.item : list.next[p] = NULL <=> p = list.tail
        /\ {chain[i] : i \in DOMAIN chain} = DOMAIN list.item
        /\ Len(chain) = list.size

\* a list of the greatest length that was just reversed, that does not read the
\* same in both directions and whose nodes were not allocated in list order
C36_ListRefinesSequenceReached ==
    /\ listLast.op = "Reverse"
    /\ Len(listModel) = MaxListLen
    /\ listModel # ReverseSeq(listModel)
    /\ list.st = "ok"
    /\ ListIterate(list).v = listModel
    /\ list.head # NULL
    /\ list.next[list.head] # NULL
    /\ list.next[list.head] < list.head
    /\ list.tail > 1

-----------------------------------------------------------------------------
(* AVLTreeMorris::ConstIterator, the inorder iterator that threads the tree *)

MorrisAbnormal(s) == [MorrisEmpty EXCEPT !.st = s]

\* ConstIterator(tree_, end): the iterator that is equal to end().  The
\* unsigned traversalPointerCount is written as the signed integer of the
\* same bits, so that 0 - 1 is the value a decrement of 0 leaves and
\* `traversalPointerCount > 0` reads `traversalPointerCount # 0`.
MorrisEndIter ==
    [current |-> NULL, previous |-> NULL, traversalPointerCount |-> 0,
     abort |-> FALSE, continuation |-> FALSE]

\* a tree and an iterator of it, as a call leaves them
MorrisPair(t, i) == [t |-> t, i |-> i]

MorrisFailed(s) == MorrisPair(MorrisAbnormal(s), MorrisEndIter)

\* while (previous->right != nullptr && previous->right != current)
\*     previous = previous->right;
RECURSIVE MorrisPredecessor(_, _, _, _)
MorrisPredecessor(t, previous, current, fuel) ==
    IF ~Ok(t, previous) THEN UNDEF
    ELSE IF t.right[previous] = NULL \/ t.right[previous] = current
         THEN previous
    ELSE IF fuel = 0 THEN DIVERGED
    ELSE MorrisPredecessor(t, t.right[previous], current, fuel - 1)

\* what a turn of the while loop of operator++ leaves: the tree, the iterator
\* and whether the loop goes on
MorrisTurnEnd(t, i, again) == [t |-> t, i |-> i, again |-> again]

\* One turn of the while loop of operator++, current being a live node
MorrisTurn(t, i) ==
    IF t.left[i.current] = NULL
    THEN IF ~i.abort /\ ~i.continuation
         THEN MorrisTurnEnd(t, [i EXCEPT !.continuation = TRUE], FALSE)
         ELSE IF i.abort /\ i.traversalPointerCount = 0
         THEN MorrisTurnEnd(t, [i EXCEPT !.continuation = FALSE], FALSE)
         ELSE MorrisTurnEnd(t, [i EXCEPT !.continuation = FALSE,
                                         !.current = t.right[i.current]],
                            TRUE)
    ELSE LET previous == MorrisPredecessor(t, t.left[i.current], i.current,
                                           Fuel(t))
             i1 == [i EXCEPT !.previous = previous]
         IN  IF ~IsPtr(previous)
             THEN MorrisTurnEnd(MorrisAbnormal(PtrStatus(previous)),
                                MorrisEndIter, FALSE)
             ELSE IF t.right[previous] = NULL /\ ~i.abort
             THEN MorrisTurnEnd([t EXCEPT !.right[previous] = i.current],
                                [i1 EXCEPT !.traversalPointerCount = @ + 1,
                                           !.current = t.left[i.current]],
                                TRUE)
             ELSE IF ~i.abort /\ ~i.continuation
             THEN MorrisTurnEnd(t, [i1 EXCEPT !.continuation = TRUE], FALSE)
             ELSE LET threaded == t.right[previous] # NULL
                      t1 == IF threaded
                            THEN [t EXCEPT !.right[previous] = NULL]
                            ELSE t
                      i2 == [i1 EXCEPT
                               !.continuation = FALSE,
                               !.traversalPointerCount =
                                   IF threaded THEN @ - 1 ELSE @]
                  IN  IF i2.abort /\ i2.traversalPointerCount = 0
                      THEN MorrisTurnEnd(t1, i2, FALSE)
                      ELSE MorrisTurnEnd(t1,
                                         [i2 EXCEPT
                                            !.current = t1.right[i.current]],
                                         TRUE)

\* The while loop of operator++, from the test of `current != nullptr` on.
\* What a turn leaves is a value n before the next turn starts from it.
RECURSIVE MorrisLoop(_, _, _)
MorrisLoop(t, i, fuel) ==
    IF t.st # "ok" \/ i.current = NULL THEN MorrisPair(t, i)
    ELSE IF ~Ok(t, i.current) THEN MorrisFailed("undefined")
    ELSE IF fuel = 0 THEN MorrisFailed("diverged")
    ELSE CHOOSE r \in {IF n.again THEN MorrisLoop(n.t, n.i, fuel - 1)
                       ELSE MorrisPair(n.t, n.i) : n \in {MorrisTurn(t, i)}} :
             TRUE

\* operator++ that leaves the threads in place when it aborts
MorrisIncrementKeepsThreads(t, i) ==
    IF i.abort THEN MorrisPair(t, MorrisEndIter)
    ELSE LET r == MorrisLoop(t, i, 2 * Fuel(t))
         IN  IF r.t.st = "ok" /\ r.i.current = NULL
             THEN MorrisPair(r.t, MorrisEndIter)
             ELSE r

\* operator++()
MorrisIncrement(t, i) ==
    LET r == MorrisLoop(t, i, 2 * Fuel(t))
    IN  IF /\ r.t.st = "ok"
           /\ \/ r.i.abort /\ r.i.traversalPointerCount = 0
              \/ r.i.current = NULL
        THEN MorrisPair(r.t, MorrisEndIter)
        ELSE r

\* a constructor that takes the root for the first position
MorrisIterAtRoot(t) ==
    MorrisPair(t, [MorrisEndIter EXCEPT !.current = t.root,
                                        !.continuation = t.root # NULL])

\* ConstIterator(tree_)
MorrisIter(t) ==
    LET i == [MorrisEndIter EXCEPT !.current = t.root]
    IN  IF t.root = NULL THEN MorrisPair(t, i) ELSE MorrisIncrement(t, i)

\* begin()
MorrisBegin(t) == MorrisIter(t)

\* end()
MorrisEnd(t) == MorrisEndIter

\* operator!=(other)
MorrisNotEqual(a, b) ==
    ~(/\ a.current = b.current
      /\ a.previous = b.previous
      /\ a.traversalPointerCount = b.traversalPointerCount
      /\ a.abort = b.abort
      /\ a.continuation = b.continuation)

\* operator*(): current->item
MorrisDeref(t, i) == IF Ok(t, i.current) THEN t.item[i.current] ELSE UNDEF

\* Reset()
MorrisReset(t, i) ==
    LET r == IF i.traversalPointerCount # 0
             THEN MorrisIncrement(t, [i EXCEPT !.abort = TRUE])
             ELSE MorrisPair(t, i)
    IN  IF r.t.st # "ok" THEN r
        ELSE MorrisPair(r.t, [r.i EXCEPT !.continuation = FALSE,
                                         !.current = t.root])

\* ~ConstIterator()
MorrisDestroy(t, i) == MorrisReset(t, i)

\* the trees hold at most this many nodes
MaxMorrisNodes == 8

\* the AVLTreeMorris of a term: the tree of the term, without parent pointers
MorrisOfTerm(t) ==
    IF t = <<>> THEN MorrisEmpty
    ELSE LET h == AVLOfTerm(t)
         IN  [root |-> h.root, item |-> h.item, left |-> h.left,
              right |-> h.right, balanceFactor |-> h.balanceFactor,
              st |-> "ok"]

\* the valid trees: search trees over the keys 1 .. n whose factors are
\* accurate and in {-1, 0, 1}
MorrisTrees ==
    {MorrisOfTerm(t) :
        t \in UNION {AVLTerms(1, n, height) :
                        n \in 0 .. MaxMorrisNodes,
                        height \in 0 .. MaxMorrisNodes}}

\* a valid tree and no iterator
InitMorris ==
    /\ rb = RBEmpty
    /\ rbKeys = {}
    /\ rbLast = NoOp
    /\ rbOps = 0
    /\ avl = AVLEmpty
    /\ avlKeys = {}
    /\ avlLast = NoOp
    /\ avlOps = 0
    /\ out = NoOut
    /\ list = ListEmpty
    /\ listModel = <<>>
    /\ listLast = NoOp
    /\ mt \in MorrisTrees
    /\ iter = NoIterator
    /\ iterLog = NoLog

\* what a loop over the iterator has seen once the iterator is i: the item
\* and the counter at each position that is not end()
MorrisSeen(t, i, log) ==
    IF t.st = "ok" /\ MorrisNotEqual(i, MorrisEnd(t))
    THEN [log EXCEPT !.yields = Append(@, MorrisDeref(t, i)),
                     !.counts = Append(@, i.traversalPointerCount)]
    ELSE log

\* ConstIterator itr = tree.begin();
MorrisBeginCall ==
    /\ iter = NoIterator
    /\ LET r == MorrisBegin(mt)
       IN  /\ mt' = r.t
           /\ iter' = r.i
           /\ iterLog' = MorrisSeen(r.t, r.i,
                                    [op |-> "begin", tree |-> mt,
                                     yields |-> <<>>, counts |-> <<>>])
    /\ UNCHANGED <<rb, rbKeys, rbLast, rbOps, avl, avlKeys, avlLast, avlOps,
                   out, list, listModel, listLast>>

\* ++itr;
MorrisIncrementCall ==
    /\ mt.st = "ok"
    /\ iterLog.op \in {"begin", "++"}
    /\ LET r == MorrisIncrement(mt, iter)
       IN  /\ mt' = r.t
           /\ iter' = r.i
           /\ iterLog' = MorrisSeen(r.t, r.i, [iterLog EXCEPT !.op = "++"])
    /\ UNCHANGED <<rb, rbKeys, rbLast, rbOps, avl, avlKeys, avlLast, avlOps,
                   out, list, listModel, listLast>>

\* the iterator goes out of scope
MorrisDestroyCall ==
    /\ mt.st = "ok"
    /\ iterLog.op \in {"begin", "++"}
    /\ LET r == MorrisDestroy(mt, iter)
       IN  /\ mt' = r.t
           /\ iter' = r.i
           /\ iterLog' = [iterLog EXCEPT !.op = "Reset"]
    /\ UNCHANGED <<rb, rbKeys, rbLast, rbOps, avl, avlKeys, avlLast, avlOps,
                   out, list, listModel, listLast>>

NextMorris ==
    \/ MorrisBeginCall
    \/ MorrisIncrementCall
    \/ MorrisDestroyCall

\* An iterator is an object with a scope: once constructed it is destroyed,
\* after any number of calls of operator++.
SpecMorris == InitMorris /\ [][NextMorris]_vars /\ WF_vars(MorrisDestroyCall)

\* the step of the loop `for (itr = begin(); itr != end(); ++itr)`
MorrisLoopStep ==
    /\ iterLog.op \in {"begin", "++"}
    /\ MorrisNotEqual(iter, MorrisEnd(mt))
    /\ MorrisIncrementCall

NextTraversal ==
    \/ MorrisBeginCall
    \/ MorrisLoopStep

\* The loop runs until the iterator is equal to end().
SpecTraversal == InitMorris /\ [][NextTraversal]_vars /\ WF_vars(NextTraversal)

-----------------------------------------------------------------------------
(* The claims about the Morris iterator *)

\* the nodes whose right pointer is not the one the tree had when the
\* iterator was constructed
MorrisThreaded(t, t0) ==
    {p \in DOMAIN t0.item : p \notin DOMAIN t.item \/ t.right[p] # t0.right[p]}

\* the nodes of t0 below p, p included
RECURSIVE MorrisBelow(_, _, _)
MorrisBelow(t0, p, fuel) ==
    IF p = NULL \/ fuel = 0 THEN {}
    ELSE {p} \cup MorrisBelow(t0, t0.left[p], fuel - 1)
             \cup MorrisBelow(t0, t0.right[p], fuel - 1)

\* the tree is as it was when the iterator was constructed and the iterator
\* counts no thread
MorrisRestored ==
    /\ mt.st = "ok"
    /\ mt = iterLog.tree
    /\ MorrisThreaded(mt, iterLog.tree) = {}
    /\ iter.traversalPointerCount = 0

\* C37: an iterator obtained from begin() on a valid tree is destroyed after
\* any number of calls of operator++; the destructor's Reset() returns, and
\* when it has, every right pointer is the one the tree had before the
\* iterator was constructed and traversalPointerCount is 0.
C37_AbortUnwinds ==
    /\ [](iterLog.op = "Reset" => MorrisRestored)
    /\ (iterLog.op \in {"begin", "++"}) ~> (iterLog.op = "Reset" /\ MorrisRestored)

\* Reset() has unwound a traversal that had yielded three keys or more, not
\* all of them, and that had two threads or more in place
C37_AbortUnwindsReached ==
    /\ iterLog.op = "Reset"
    /\ Len(iterLog.yields) >= 3
    /\ Len(iterLog.yields) < Cardinality(DOMAIN mt.item)
    /\ iterLog.counts[Len(iterLog.counts)] >= 2
    /\ MorrisRestored

\* the keys of the tree in ascending order: the node of key k is at address k
MorrisKeys(t0) == [k \in 1 .. Cardinality(DOMAIN t0.item) |-> k]

\* the loop has ended: the iterator is equal to end()
MorrisAtEnd ==
    /\ iterLog.op \in {"begin", "++"}
    /\ mt.st = "ok"
    /\ ~MorrisNotEqual(iter, MorrisEnd(mt))

\* the right pointers that are not the original ones are as many as the
\* iterator counts, and each is a thread: it replaces a null pointer by a
\* pointer to an ancestor of its node
MorrisCountsThreads ==
    LET t0 == iterLog.tree
        T == MorrisThreaded(mt, t0)
    IN  /\ iter.traversalPointerCount = Cardinality(T)
        /\ \A p \in T :
              /\ p \in DOMAIN mt.item
              /\ t0.right[p] = NULL
              /\ mt.right[p] \in DOMAIN t0.item
              /\ p \in MorrisBelow(t0, t0.left[mt.right[p]], Fuel(t0))

\* C38: the loop from begin() to end() on a valid tree ends; what it has
\* yielded so far are the least keys of the tree in ascending order, each
\* once; while the iterator is at a key, traversalPointerCount is the number
\* of right pointers that point to an ancestor instead; and once the
\* iterator is equal to end() every key was yielded, every right pointer is
\* the original one and traversalPointerCount is 0.
C38_CompleteTraversal ==
    /\ [](iterLog.op \in {"begin", "++"} =>
            /\ mt.st = "ok"
            /\ iterLog.yields
                 = SubSeq(MorrisKeys(iterLog.tree), 1, Len(iterLog.yields))
            /\ MorrisNotEqual(iter, MorrisEnd(mt)) =>
                  /\ MorrisDeref(mt, iter) = iterLog.yields[Len(iterLog.yields)]
                  /\ MorrisCountsThreads
            /\ ~MorrisNotEqual(iter, MorrisEnd(mt)) =>
                  /\ iterLog.yields = MorrisKeys(iterLog.tree)
                  /\ MorrisRestored)
    /\ <>MorrisAtEnd

\* the loop over a tree of the greatest size has ended, and had three threads
\* in place at some key
C38_CompleteTraversalReached ==
    /\ MorrisAtEnd
    /\ Len(iterLog.yields) = MaxMorrisNodes
    /\ \E j \in DOMAIN iterLog.counts : iterLog.counts[j] >= 3
    /\ mt = iterLog.tree

=============================================================================
